---- MODULE Spec2Model ----
(***************************************************************************)
(* Model of AIRI's self-learning loop (use-self-learning.ts), its run      *)
(* ledger and schedule (stores/modules/self-learning.ts) and the long-term *)
(* memory store with its confidence lifecycle (memory-long-term store).    *)
(*                                                                         *)
(* Encodings.                                                              *)
(*  - A JavaScript string is the sequence of its UTF-16 code units, each   *)
(*    a number, so that trim, toLowerCase, split and includes are          *)
(*    computed and not assumed.                                            *)
(*  - Date.now() is the variable now, counted in hours (the code counts    *)
(*    milliseconds; every duration of the code is a whole number of        *)
(*    hours).                                                              *)
(*  - A confidence is an IEEE 754 double, [neg, m, e] standing for         *)
(*    (-1)^neg * m * 2^e with m of 53 binary digits, written in base       *)
(*    2^15 with the least significant digit first; sums, products and      *)
(*    quotients are rounded as the double arithmetic of JavaScript rounds. *)
(*  - nanoid() is an identifier that is not in use.                        *)
(***************************************************************************)
EXTENDS Integers, Sequences, FiniteSets, TLC

VARIABLES
    now,               \* Date.now(), hours
    entries,           \* memory-long-term: entries
    feedback,          \* search-progress.vue: feedback ref of the shown response
    enabled,           \* self-learning: enabled
    schedule,          \* self-learning: schedule
    topics,            \* self-learning: topics
    runHistory,        \* self-learning: runHistory, newest first
    lastRunAt,         \* self-learning: lastRunAt (NoTime when null)
    maxPagesPerTopic,  \* self-learning: maxPagesPerTopic
    providerOk,        \* consciousness: activeProvider && activeModel
    searchConfigured,  \* web-search: configured
    tasks,             \* the runLearningLoop invocations suspended at an await
    lastCall,          \* outcome of the most recent runLearningLoop invocation or settlement
    collab,            \* what search, readPage and the model's answer can settle to
    memEnabled,        \* memory-long-term: enabled
    maxInjectedEntries,\* memory-long-term: maxInjectedEntries
    lastContext,       \* what the most recent getEntriesForContext() returned
    summarizing        \* the summarizeCurrentSession invocations suspended at an await

vars == <<now, entries, feedback, enabled, schedule, topics, runHistory, lastRunAt,
          maxPagesPerTopic, providerOk, searchConfigured, tasks, lastCall, collab,
          memEnabled, maxInjectedEntries, lastContext, summarizing>>

memVars == <<entries, feedback>>
learnVars == <<enabled, schedule, topics, runHistory, lastRunAt, maxPagesPerTopic,
               providerOk, searchConfigured, tasks, lastCall, collab>>
storeVars == <<enabled, schedule, topics, runHistory, lastRunAt, maxPagesPerTopic,
               providerOk, searchConfigured, tasks, collab>>
ctxVars == <<memEnabled, maxInjectedEntries, lastContext>>

\* null / undefined: of a string, of a timestamp, of a number, of an identifier
Null == "null"
NoTime == 0 - 1
NoValue == 0 - 1
NoRun == 0

\* how a call of runLearningLoop / checkAndRunIfDue stands or ended
Result(op, caller, result, value, error, run) ==
    [op |-> op, caller |-> caller, result |-> result, value |-> value,
     error |-> error, run |-> run]

NoCall == Result("none", "none", "none", NoValue, Null, NoRun)

\* a call of a store function that returned nothing
Called(op) == Result(op, "direct", "returned", NoValue, Null, NoRun)

\* what a context read returned, and the runs that were in flight at the read
Context(es, during) == [read |-> TRUE, entries |-> es, during |-> during]

NoContext == [read |-> FALSE, entries |-> <<>>, during |-> {}]

-----------------------------------------------------------------------------
(* Bounds of the model *)

MaxEntries == 2
MaxTopics == 2
MaxRuns == 2
MaxNow == 25
MaxNowMem == 504
MaxMemEntries == 1
MaxVotes == 2
MaxSummarizers == 1
MaxStarts == 2
MaxElapsed == 169
MaxStored == 3

-----------------------------------------------------------------------------
(* Program constants *)

\* oneWeekMs = 7 * 24 * 60 * 60 * 1000, in hours
OneWeekH == 168
\* confidence seeds, boost delta, decay defaults, in thousandths
SeedSelfLearning == 600
SeedManual == 800
BoostDefault == 50
DecayRateDefault == 20
PruneBelowDefault == 50
\* giveFeedback looks at sortedEntries.slice(0, 5)
FeedbackTop == 5
\* runHistory keeps .slice(0, 20)
HistoryLimit == 20
\* word.length > 4 and matches / words >= 0.6 (= 3/5)
SignificantLen == 4
DupNum == 3
DupDen == 5
\* content.trim().length > 200
MinPageLen == 200
\* insights.slice(0, 8)
MaxInsights == 8
\* maxInjectedEntries as installed
MaxInjectedDefault == 10
\* maxPagesPerTopic as installed
MaxPagesDefault == 2
\* summarizeCurrentSession: exchanges.length < 4 returns null
MinExchanges == 4
\* webSearchStore.search(query, 4)
SearchLimit == 4
\* schedule intervals in hours
HourlyH == 1
DailyH == 24
WeeklyH == 168

-----------------------------------------------------------------------------
(* Strings.  A JavaScript string is the sequence of its UTF-16 code units, *)
(* each a number; Str writes one from its printable ASCII characters.       *)

\* the printable ASCII characters U+0020 to U+005F and U+0061 to U+007E, in
\* code order
AsciiChars ==
    <<
      " ", "!", "\"", "#", "$", "%", "&", "'", "(", ")", "*", "+", ",", "-", ".", "/",
      "0", "1", "2", "3", "4", "5", "6", "7", "8", "9", ":", ";", "<", "=", ">", "?",
      "@", "A", "B", "C", "D", "E", "F", "G", "H", "I", "J", "K", "L", "M", "N", "O",
      "P", "Q", "R", "S", "T", "U", "V", "W", "X", "Y", "Z", "[", "\\", "]", "^", "_",
      "a", "b", "c", "d", "e", "f", "g", "h", "i", "j", "k", "l", "m", "n", "o",
      "p", "q", "r", "s", "t", "u", "v", "w", "x", "y", "z", "{", "|", "}", "~"
    >>

\* the code unit of a character of AsciiChars
CodeOf(c) ==
    LET i == CHOOSE k \in 1..Len(AsciiChars) : AsciiChars[k] = c
    IN IF i <= 64 THEN 31 + i ELSE 32 + i

Str(chars) == [i \in 1..Len(chars) |-> CodeOf(chars[i])]

Str_PyOld == Str(<<"P","y","t","h","o","n"," ","3",".","1","3"," ","r","e","m","o","v","e","s"," ","t","h","e"," ","G","I","L"," ","i","n"," ","f","r","e","e","-","t","h","r","e","a","d","e","d"," ","b","u","i","l","d","s">>)
Str_PyNew == Str(<<"P","y","t","h","o","n"," ","3",".","1","3"," ","r","e","m","o","v","e","d"," ","G","I","L"," ","f","o","r"," ","f","r","e","e","-","t","h","r","e","a","d","e","d"," ","m","o","d","e">>)
Str_Tokio == Str(<<"T","o","k","i","o"," ","i","s"," ","t","h","e"," ","m","o","s","t"," ","w","i","d","e","l","y"," ","u","s","e","d"," ","a","s","y","n","c"," ","r","u","n","t","i","m","e"," ","f","o","r"," ","R","u","s","t",".">>)
Str_RustSafe == Str(<<"R","u","s","t"," ","g","u","a","r","a","n","t","e","e","s"," ","m","e","m","o","r","y"," ","s","a","f","e","t","y">>)
Str_SelfLearning == Str(<<"s","e","l","f","-","l","e","a","r","n","i","n","g">>)
Str_AI == Str(<<"A","I">>)
Str_Go == Str(<<"G","o">>)
Str_1x == Str(<<"1",".","x">>)
Str_GIL == Str(<<"G","I","L">>)

\* the code units that /\s/ matches and that trim() removes: WhiteSpace and
\* LineTerminator of ECMAScript (tab, LF, VT, FF, CR, space, U+00A0, U+1680,
\* U+2000..U+200A, U+2028, U+2029, U+202F, U+205F, U+3000, U+FEFF)
WhiteSpace ==
    {9, 10, 11, 12, 13, 32, 160, 5760, 8232, 8233, 8239, 8287, 12288, 65279} \cup (8192..8202)

IsSpace(c) == c \in WhiteSpace

IsHighSurrogate(u) == 55296 <= u /\ u <= 56319
IsLowSurrogate(u) == 56320 <= u /\ u <= 57343

\* the code points of a string: a surrogate pair is one code point, a
\* surrogate that stands alone is its own code point
RECURSIVE CodePointsFrom(_, _)
CodePointsFrom(s, i) ==
    IF i > Len(s) THEN <<>>
    ELSE IF i < Len(s) /\ IsHighSurrogate(s[i]) /\ IsLowSurrogate(s[i + 1])
    THEN <<65536 + ((s[i] - 55296) * 1024) + (s[i + 1] - 56320)>> \o CodePointsFrom(s, i + 2)
    ELSE <<s[i]>> \o CodePointsFrom(s, i + 1)

CodePoints(s) == CodePointsFrom(s, 1)

\* the code units of a code point
CodeUnits(cp) ==
    IF cp < 65536 THEN <<cp>>
    ELSE <<55296 + ((cp - 65536) \div 1024), 56320 + ((cp - 65536) % 1024)>>

\* the simple lower-case mappings of the Unicode Character Database 17.0: the code
\* points lo, lo + step, .. hi map to to, to + step, ..; every entry is
\* <<lo, hi, step, to>>
LowerRules ==
    <<
      <<65,90,1,97>>, <<192,214,1,224>>, <<216,222,1,248>>, <<256,302,2,257>>,
      <<306,310,2,307>>, <<313,327,2,314>>, <<330,374,2,331>>, <<376,376,1,255>>,
      <<377,381,2,378>>, <<385,385,1,595>>, <<386,388,2,387>>, <<390,390,1,596>>,
      <<391,391,1,392>>, <<393,394,1,598>>, <<395,395,1,396>>, <<398,398,1,477>>,
      <<399,399,1,601>>, <<400,400,1,603>>, <<401,401,1,402>>, <<403,403,1,608>>,
      <<404,404,1,611>>, <<406,406,1,617>>, <<407,407,1,616>>, <<408,408,1,409>>,
      <<412,412,1,623>>, <<413,413,1,626>>, <<415,415,1,629>>, <<416,420,2,417>>,
      <<422,422,1,640>>, <<423,423,1,424>>, <<425,425,1,643>>, <<428,428,1,429>>,
      <<430,430,1,648>>, <<431,431,1,432>>, <<433,434,1,650>>, <<435,437,2,436>>,
      <<439,439,1,658>>, <<440,440,1,441>>, <<444,444,1,445>>, <<452,452,1,454>>,
      <<453,453,1,454>>, <<455,455,1,457>>, <<456,456,1,457>>, <<458,458,1,460>>,
      <<459,475,2,460>>, <<478,494,2,479>>, <<497,497,1,499>>, <<498,500,2,499>>,
      <<502,502,1,405>>, <<503,503,1,447>>, <<504,542,2,505>>, <<544,544,1,414>>,
      <<546,562,2,547>>, <<570,570,1,11365>>, <<571,571,1,572>>, <<573,573,1,410>>,
      <<574,574,1,11366>>, <<577,577,1,578>>, <<579,579,1,384>>, <<580,580,1,649>>,
      <<581,581,1,652>>, <<582,590,2,583>>, <<880,882,2,881>>, <<886,886,1,887>>,
      <<895,895,1,1011>>, <<902,902,1,940>>, <<904,906,1,941>>, <<908,908,1,972>>,
      <<910,911,1,973>>, <<913,929,1,945>>, <<931,939,1,963>>, <<975,975,1,983>>,
      <<984,1006,2,985>>, <<1012,1012,1,952>>, <<1015,1015,1,1016>>, <<1017,1017,1,1010>>,
      <<1018,1018,1,1019>>, <<1021,1023,1,891>>, <<1024,1039,1,1104>>, <<1040,1071,1,1072>>,
      <<1120,1152,2,1121>>, <<1162,1214,2,1163>>, <<1216,1216,1,1231>>, <<1217,1229,2,1218>>,
      <<1232,1326,2,1233>>, <<1329,1366,1,1377>>, <<4256,4293,1,11520>>,
      <<4295,4295,1,11559>>, <<4301,4301,1,11565>>, <<5024,5103,1,43888>>,
      <<5104,5109,1,5112>>, <<7305,7305,1,7306>>, <<7312,7354,1,4304>>, <<7357,7359,1,4349>>,
      <<7680,7828,2,7681>>, <<7838,7838,1,223>>, <<7840,7934,2,7841>>, <<7944,7951,1,7936>>,
      <<7960,7965,1,7952>>, <<7976,7983,1,7968>>, <<7992,7999,1,7984>>, <<8008,8013,1,8000>>,
      <<8025,8031,2,8017>>, <<8040,8047,1,8032>>, <<8072,8079,1,8064>>, <<8088,8095,1,8080>>,
      <<8104,8111,1,8096>>, <<8120,8121,1,8112>>, <<8122,8123,1,8048>>, <<8124,8124,1,8115>>,
      <<8136,8139,1,8050>>, <<8140,8140,1,8131>>, <<8152,8153,1,8144>>, <<8154,8155,1,8054>>,
      <<8168,8169,1,8160>>, <<8170,8171,1,8058>>, <<8172,8172,1,8165>>, <<8184,8185,1,8056>>,
      <<8186,8187,1,8060>>, <<8188,8188,1,8179>>, <<8486,8486,1,969>>, <<8490,8490,1,107>>,
      <<8491,8491,1,229>>, <<8498,8498,1,8526>>, <<8544,8559,1,8560>>, <<8579,8579,1,8580>>,
      <<9398,9423,1,9424>>, <<11264,11311,1,11312>>, <<11360,11360,1,11361>>,
      <<11362,11362,1,619>>, <<11363,11363,1,7549>>, <<11364,11364,1,637>>,
      <<11367,11371,2,11368>>, <<11373,11373,1,593>>, <<11374,11374,1,625>>,
      <<11375,11375,1,592>>, <<11376,11376,1,594>>, <<11378,11378,1,11379>>,
      <<11381,11381,1,11382>>, <<11390,11391,1,575>>, <<11392,11490,2,11393>>,
      <<11499,11501,2,11500>>, <<11506,11506,1,11507>>, <<42560,42604,2,42561>>,
      <<42624,42650,2,42625>>, <<42786,42798,2,42787>>, <<42802,42862,2,42803>>,
      <<42873,42875,2,42874>>, <<42877,42877,1,7545>>, <<42878,42886,2,42879>>,
      <<42891,42891,1,42892>>, <<42893,42893,1,613>>, <<42896,42898,2,42897>>,
      <<42902,42920,2,42903>>, <<42922,42922,1,614>>, <<42923,42923,1,604>>,
      <<42924,42924,1,609>>, <<42925,42925,1,620>>, <<42926,42926,1,618>>,
      <<42928,42928,1,670>>, <<42929,42929,1,647>>, <<42930,42930,1,669>>,
      <<42931,42931,1,43859>>, <<42932,42946,2,42933>>, <<42948,42948,1,42900>>,
      <<42949,42949,1,642>>, <<42950,42950,1,7566>>, <<42951,42953,2,42952>>,
      <<42955,42955,1,612>>, <<42956,42970,2,42957>>, <<42972,42972,1,411>>,
      <<42997,42997,1,42998>>, <<65313,65338,1,65345>>, <<66560,66599,1,66600>>,
      <<66736,66771,1,66776>>, <<66928,66964,2,66967>>, <<66929,66937,2,66968>>,
      <<66941,66953,2,66980>>, <<66957,66961,2,66996>>, <<66965,66965,1,67004>>,
      <<68736,68786,1,68800>>, <<68944,68965,1,68976>>, <<71840,71871,1,71872>>,
      <<93760,93791,1,93792>>, <<93856,93880,1,93883>>, <<125184,125217,1,125218>>
    >>

\* the cased letters that are not case-ignorable, as ranges <<lo, hi>>
CasedRanges ==
    <<
      <<65,90>>, <<97,122>>, <<170,170>>, <<181,181>>, <<186,186>>, <<192,214>>, <<216,246>>,
      <<248,442>>, <<444,447>>, <<452,659>>, <<662,687>>, <<880,883>>, <<886,887>>,
      <<891,893>>, <<895,895>>, <<902,902>>, <<904,906>>, <<908,908>>, <<910,929>>,
      <<931,1013>>, <<1015,1153>>, <<1162,1327>>, <<1329,1366>>, <<1376,1416>>, <<4256,4293>>,
      <<4295,4295>>, <<4301,4301>>, <<4304,4346>>, <<4349,4351>>, <<5024,5109>>,
      <<5112,5117>>, <<7296,7306>>, <<7312,7354>>, <<7357,7359>>, <<7424,7467>>,
      <<7531,7543>>, <<7545,7578>>, <<7680,7957>>, <<7960,7965>>, <<7968,8005>>,
      <<8008,8013>>, <<8016,8023>>, <<8025,8025>>, <<8027,8027>>, <<8029,8029>>,
      <<8031,8061>>, <<8064,8116>>, <<8118,8124>>, <<8126,8126>>, <<8130,8132>>,
      <<8134,8140>>, <<8144,8147>>, <<8150,8155>>, <<8160,8172>>, <<8178,8180>>,
      <<8182,8188>>, <<8450,8450>>, <<8455,8455>>, <<8458,8467>>, <<8469,8469>>,
      <<8473,8477>>, <<8484,8484>>, <<8486,8486>>, <<8488,8488>>, <<8490,8493>>,
      <<8495,8500>>, <<8505,8505>>, <<8508,8511>>, <<8517,8521>>, <<8526,8526>>,
      <<8544,8575>>, <<8579,8580>>, <<9398,9449>>, <<11264,11387>>, <<11390,11492>>,
      <<11499,11502>>, <<11506,11507>>, <<11520,11557>>, <<11559,11559>>, <<11565,11565>>,
      <<42560,42605>>, <<42624,42651>>, <<42786,42863>>, <<42865,42887>>, <<42891,42894>>,
      <<42896,42972>>, <<42997,42998>>, <<43002,43002>>, <<43824,43866>>, <<43872,43880>>,
      <<43888,43967>>, <<64256,64262>>, <<64275,64279>>, <<65313,65338>>, <<65345,65370>>,
      <<66560,66639>>, <<66736,66771>>, <<66776,66811>>, <<66928,66938>>, <<66940,66954>>,
      <<66956,66962>>, <<66964,66965>>, <<66967,66977>>, <<66979,66993>>, <<66995,67001>>,
      <<67003,67004>>, <<68736,68786>>, <<68800,68850>>, <<68944,68965>>, <<68976,68997>>,
      <<71840,71903>>, <<93760,93823>>, <<93856,93880>>, <<93883,93907>>, <<119808,119892>>,
      <<119894,119964>>, <<119966,119967>>, <<119970,119970>>, <<119973,119974>>,
      <<119977,119980>>, <<119982,119993>>, <<119995,119995>>, <<119997,120003>>,
      <<120005,120069>>, <<120071,120074>>, <<120077,120084>>, <<120086,120092>>,
      <<120094,120121>>, <<120123,120126>>, <<120128,120132>>, <<120134,120134>>,
      <<120138,120144>>, <<120146,120485>>, <<120488,120512>>, <<120514,120538>>,
      <<120540,120570>>, <<120572,120596>>, <<120598,120628>>, <<120630,120654>>,
      <<120656,120686>>, <<120688,120712>>, <<120714,120744>>, <<120746,120770>>,
      <<120772,120779>>, <<122624,122633>>, <<122635,122654>>, <<122661,122666>>,
      <<125184,125251>>, <<127280,127305>>, <<127312,127337>>, <<127344,127369>>
    >>

\* the case-ignorable code points, as ranges <<lo, hi>>
CaseIgnorableRanges ==
    <<
      <<39,39>>, <<46,46>>, <<58,58>>, <<94,94>>, <<96,96>>, <<168,168>>, <<173,173>>,
      <<175,175>>, <<180,180>>, <<183,184>>, <<688,879>>, <<884,885>>, <<890,890>>,
      <<900,901>>, <<903,903>>, <<1155,1161>>, <<1369,1369>>, <<1375,1375>>, <<1425,1469>>,
      <<1471,1471>>, <<1473,1474>>, <<1476,1477>>, <<1479,1479>>, <<1524,1524>>,
      <<1536,1541>>, <<1552,1562>>, <<1564,1564>>, <<1600,1600>>, <<1611,1631>>,
      <<1648,1648>>, <<1750,1757>>, <<1759,1768>>, <<1770,1773>>, <<1807,1807>>,
      <<1809,1809>>, <<1840,1866>>, <<1958,1968>>, <<2027,2037>>, <<2042,2042>>,
      <<2045,2045>>, <<2070,2093>>, <<2137,2139>>, <<2184,2184>>, <<2192,2193>>,
      <<2199,2207>>, <<2249,2306>>, <<2362,2362>>, <<2364,2364>>, <<2369,2376>>,
      <<2381,2381>>, <<2385,2391>>, <<2402,2403>>, <<2417,2417>>, <<2433,2433>>,
      <<2492,2492>>, <<2497,2500>>, <<2509,2509>>, <<2530,2531>>, <<2558,2558>>,
      <<2561,2562>>, <<2620,2620>>, <<2625,2626>>, <<2631,2632>>, <<2635,2637>>,
      <<2641,2641>>, <<2672,2673>>, <<2677,2677>>, <<2689,2690>>, <<2748,2748>>,
      <<2753,2757>>, <<2759,2760>>, <<2765,2765>>, <<2786,2787>>, <<2810,2815>>,
      <<2817,2817>>, <<2876,2876>>, <<2879,2879>>, <<2881,2884>>, <<2893,2893>>,
      <<2901,2902>>, <<2914,2915>>, <<2946,2946>>, <<3008,3008>>, <<3021,3021>>,
      <<3072,3072>>, <<3076,3076>>, <<3132,3132>>, <<3134,3136>>, <<3142,3144>>,
      <<3146,3149>>, <<3157,3158>>, <<3170,3171>>, <<3201,3201>>, <<3260,3260>>,
      <<3263,3263>>, <<3270,3270>>, <<3276,3277>>, <<3298,3299>>, <<3328,3329>>,
      <<3387,3388>>, <<3393,3396>>, <<3405,3405>>, <<3426,3427>>, <<3457,3457>>,
      <<3530,3530>>, <<3538,3540>>, <<3542,3542>>, <<3633,3633>>, <<3636,3642>>,
      <<3654,3662>>, <<3761,3761>>, <<3764,3772>>, <<3782,3782>>, <<3784,3790>>,
      <<3864,3865>>, <<3893,3893>>, <<3895,3895>>, <<3897,3897>>, <<3953,3966>>,
      <<3968,3972>>, <<3974,3975>>, <<3981,3991>>, <<3993,4028>>, <<4038,4038>>,
      <<4141,4144>>, <<4146,4151>>, <<4153,4154>>, <<4157,4158>>, <<4184,4185>>,
      <<4190,4192>>, <<4209,4212>>, <<4226,4226>>, <<4229,4230>>, <<4237,4237>>,
      <<4253,4253>>, <<4348,4348>>, <<4957,4959>>, <<5906,5908>>, <<5938,5939>>,
      <<5970,5971>>, <<6002,6003>>, <<6068,6069>>, <<6071,6077>>, <<6086,6086>>,
      <<6089,6099>>, <<6103,6103>>, <<6109,6109>>, <<6155,6159>>, <<6211,6211>>,
      <<6277,6278>>, <<6313,6313>>, <<6432,6434>>, <<6439,6440>>, <<6450,6450>>,
      <<6457,6459>>, <<6679,6680>>, <<6683,6683>>, <<6742,6742>>, <<6744,6750>>,
      <<6752,6752>>, <<6754,6754>>, <<6757,6764>>, <<6771,6780>>, <<6783,6783>>,
      <<6823,6823>>, <<6832,6877>>, <<6880,6891>>, <<6912,6915>>, <<6964,6964>>,
      <<6966,6970>>, <<6972,6972>>, <<6978,6978>>, <<7019,7027>>, <<7040,7041>>,
      <<7074,7077>>, <<7080,7081>>, <<7083,7085>>, <<7142,7142>>, <<7144,7145>>,
      <<7149,7149>>, <<7151,7153>>, <<7212,7219>>, <<7222,7223>>, <<7288,7293>>,
      <<7376,7378>>, <<7380,7392>>, <<7394,7400>>, <<7405,7405>>, <<7412,7412>>,
      <<7416,7417>>, <<7468,7530>>, <<7544,7544>>, <<7579,7679>>, <<8125,8125>>,
      <<8127,8129>>, <<8141,8143>>, <<8157,8159>>, <<8173,8175>>, <<8189,8190>>,
      <<8203,8207>>, <<8216,8217>>, <<8228,8228>>, <<8231,8231>>, <<8234,8238>>,
      <<8288,8292>>, <<8294,8303>>, <<8305,8305>>, <<8319,8319>>, <<8336,8348>>,
      <<8400,8432>>, <<11388,11389>>, <<11503,11505>>, <<11631,11631>>, <<11647,11647>>,
      <<11744,11775>>, <<11823,11823>>, <<12293,12293>>, <<12330,12333>>, <<12337,12341>>,
      <<12347,12347>>, <<12441,12446>>, <<12540,12542>>, <<40981,40981>>, <<42232,42237>>,
      <<42508,42508>>, <<42607,42610>>, <<42612,42621>>, <<42623,42623>>, <<42652,42655>>,
      <<42736,42737>>, <<42752,42785>>, <<42864,42864>>, <<42888,42890>>, <<42993,42996>>,
      <<43000,43001>>, <<43010,43010>>, <<43014,43014>>, <<43019,43019>>, <<43045,43046>>,
      <<43052,43052>>, <<43204,43205>>, <<43232,43249>>, <<43263,43263>>, <<43302,43309>>,
      <<43335,43345>>, <<43392,43394>>, <<43443,43443>>, <<43446,43449>>, <<43452,43453>>,
      <<43471,43471>>, <<43493,43494>>, <<43561,43566>>, <<43569,43570>>, <<43573,43574>>,
      <<43587,43587>>, <<43596,43596>>, <<43632,43632>>, <<43644,43644>>, <<43696,43696>>,
      <<43698,43700>>, <<43703,43704>>, <<43710,43711>>, <<43713,43713>>, <<43741,43741>>,
      <<43756,43757>>, <<43763,43764>>, <<43766,43766>>, <<43867,43871>>, <<43881,43883>>,
      <<44005,44005>>, <<44008,44008>>, <<44013,44013>>, <<64286,64286>>, <<64434,64450>>,
      <<65024,65039>>, <<65043,65043>>, <<65056,65071>>, <<65106,65106>>, <<65109,65109>>,
      <<65279,65279>>, <<65287,65287>>, <<65294,65294>>, <<65306,65306>>, <<65342,65342>>,
      <<65344,65344>>, <<65392,65392>>, <<65438,65439>>, <<65507,65507>>, <<65529,65531>>,
      <<66045,66045>>, <<66272,66272>>, <<66422,66426>>, <<67456,67461>>, <<67463,67504>>,
      <<67506,67514>>, <<68097,68099>>, <<68101,68102>>, <<68108,68111>>, <<68152,68154>>,
      <<68159,68159>>, <<68325,68326>>, <<68900,68903>>, <<68942,68942>>, <<68969,68973>>,
      <<68975,68975>>, <<69291,69292>>, <<69317,69317>>, <<69370,69375>>, <<69446,69456>>,
      <<69506,69509>>, <<69633,69633>>, <<69688,69702>>, <<69744,69744>>, <<69747,69748>>,
      <<69759,69761>>, <<69811,69814>>, <<69817,69818>>, <<69821,69821>>, <<69826,69826>>,
      <<69837,69837>>, <<69888,69890>>, <<69927,69931>>, <<69933,69940>>, <<70003,70003>>,
      <<70016,70017>>, <<70070,70078>>, <<70089,70092>>, <<70095,70095>>, <<70191,70193>>,
      <<70196,70196>>, <<70198,70199>>, <<70206,70206>>, <<70209,70209>>, <<70367,70367>>,
      <<70371,70378>>, <<70400,70401>>, <<70459,70460>>, <<70464,70464>>, <<70502,70508>>,
      <<70512,70516>>, <<70587,70592>>, <<70606,70606>>, <<70608,70608>>, <<70610,70610>>,
      <<70625,70626>>, <<70712,70719>>, <<70722,70724>>, <<70726,70726>>, <<70750,70750>>,
      <<70835,70840>>, <<70842,70842>>, <<70847,70848>>, <<70850,70851>>, <<71090,71093>>,
      <<71100,71101>>, <<71103,71104>>, <<71132,71133>>, <<71219,71226>>, <<71229,71229>>,
      <<71231,71232>>, <<71339,71339>>, <<71341,71341>>, <<71344,71349>>, <<71351,71351>>,
      <<71453,71453>>, <<71455,71455>>, <<71458,71461>>, <<71463,71467>>, <<71727,71735>>,
      <<71737,71738>>, <<71995,71996>>, <<71998,71998>>, <<72003,72003>>, <<72148,72151>>,
      <<72154,72155>>, <<72160,72160>>, <<72193,72202>>, <<72243,72248>>, <<72251,72254>>,
      <<72263,72263>>, <<72273,72278>>, <<72281,72283>>, <<72330,72342>>, <<72344,72345>>,
      <<72544,72544>>, <<72546,72548>>, <<72550,72550>>, <<72752,72758>>, <<72760,72765>>,
      <<72767,72767>>, <<72850,72871>>, <<72874,72880>>, <<72882,72883>>, <<72885,72886>>,
      <<73009,73014>>, <<73018,73018>>, <<73020,73021>>, <<73023,73029>>, <<73031,73031>>,
      <<73104,73105>>, <<73109,73109>>, <<73111,73111>>, <<73177,73177>>, <<73459,73460>>,
      <<73472,73473>>, <<73526,73530>>, <<73536,73536>>, <<73538,73538>>, <<73562,73562>>,
      <<78896,78912>>, <<78919,78933>>, <<90398,90409>>, <<90413,90415>>, <<92912,92916>>,
      <<92976,92982>>, <<92992,92995>>, <<93504,93506>>, <<93547,93548>>, <<94031,94031>>,
      <<94095,94111>>, <<94176,94177>>, <<94179,94180>>, <<94194,94195>>, <<110576,110579>>,
      <<110581,110587>>, <<110589,110590>>, <<113821,113822>>, <<113824,113827>>,
      <<118528,118573>>, <<118576,118598>>, <<119143,119145>>, <<119155,119170>>,
      <<119173,119179>>, <<119210,119213>>, <<119362,119364>>, <<121344,121398>>,
      <<121403,121452>>, <<121461,121461>>, <<121476,121476>>, <<121499,121503>>,
      <<121505,121519>>, <<122880,122886>>, <<122888,122904>>, <<122907,122913>>,
      <<122915,122916>>, <<122918,122922>>, <<122928,122989>>, <<123023,123023>>,
      <<123184,123197>>, <<123566,123566>>, <<123628,123631>>, <<124139,124143>>,
      <<124398,124399>>, <<124643,124643>>, <<124646,124646>>, <<124654,124655>>,
      <<124661,124661>>, <<124671,124671>>, <<125136,125142>>, <<125252,125259>>,
      <<127995,127999>>, <<917505,917505>>, <<917536,917631>>, <<917760,917999>>
    >>

InRanges(cp, ranges) == \E k \in 1..Len(ranges) : ranges[k][1] <= cp /\ cp <= ranges[k][2]

IsCased(cp) == InRanges(cp, CasedRanges)

IsCaseIgnorable(cp) == InRanges(cp, CaseIgnorableRanges)

HasRule(cp, r) == r[1] <= cp /\ cp <= r[2] /\ (cp - r[1]) % r[3] = 0

\* the simple lower-case mapping of one code point (no rule starts below "A"
\* or between "Z" and U+00C0)
ToLowerChar(cp) ==
    IF cp < 65 \/ (90 < cp /\ cp < 192) THEN cp
    ELSE IF \E k \in 1..Len(LowerRules) : HasRule(cp, LowerRules[k])
    THEN LET r == LowerRules[CHOOSE k \in 1..Len(LowerRules) : HasRule(cp, LowerRules[k])]
         IN r[4] + (cp - r[1])
    ELSE cp

\* the condition Final_Sigma of SpecialCasing.txt at position i of the code
\* points ps: a cased letter and then case-ignorable code points come before,
\* and no case-ignorable code points and then a cased letter come after
FinalSigma(ps, i) ==
    /\ \E j \in 1..(i - 1) :
          /\ IsCased(ps[j])
          /\ \A k \in (j + 1)..(i - 1) : IsCaseIgnorable(ps[k])
    /\ ~ \E j \in (i + 1)..Len(ps) :
          /\ IsCased(ps[j])
          /\ \A k \in (i + 1)..(j - 1) : IsCaseIgnorable(ps[k])

\* the lower case of the code point at position i, as code units: U+0130 gives
\* "i" and U+0307, a capital sigma in final position gives the final sigma
LowerAt(ps, i) ==
    IF ps[i] = 304 THEN <<105, 775>>
    ELSE IF ps[i] = 931 /\ FinalSigma(ps, i) THEN <<962>>
    ELSE CodeUnits(ToLowerChar(ps[i]))

RECURSIVE LowerFrom(_, _)
LowerFrom(ps, i) == IF i > Len(ps) THEN <<>> ELSE LowerAt(ps, i) \o LowerFrom(ps, i + 1)

\* String.prototype.toLowerCase
ToLowerCase(s) == LowerFrom(CodePoints(s), 1)

\* String.prototype.trim
RECURSIVE TrimStart(_)
TrimStart(s) == IF s # <<>> /\ IsSpace(Head(s)) THEN TrimStart(Tail(s)) ELSE s

RECURSIVE TrimEnd(_)
TrimEnd(s) ==
    IF s # <<>> /\ IsSpace(s[Len(s)]) THEN TrimEnd(SubSeq(s, 1, Len(s) - 1)) ELSE s

Trim(s) == TrimEnd(TrimStart(s))

\* String.prototype.includes
Includes(e, w) ==
    \E k \in 0..(Len(e) - Len(w)) : SubSeq(e, k + 1, k + Len(w)) = w

\* s.split(/\s+/): the pieces between maximal runs of whitespace; a string that
\* starts or ends with whitespace yields an empty first or last piece.
RECURSIVE SplitFrom(_, _, _, _)
SplitFrom(s, i, cur, acc) ==
    IF i > Len(s) THEN Append(acc, cur)
    ELSE IF IsSpace(s[i])
         THEN IF i > 1 /\ IsSpace(s[i - 1])
              THEN SplitFrom(s, i + 1, cur, acc)
              ELSE SplitFrom(s, i + 1, <<>>, Append(acc, cur))
         ELSE SplitFrom(s, i + 1, Append(cur, s[i]), acc)

SplitWs(s) == SplitFrom(s, 1, <<>>, <<>>)

\* Array.prototype.filter is SelectSeq; Array.prototype.slice(0, n)
Slice0(s, n) == IF n <= 0 THEN <<>> ELSE SubSeq(s, 1, IF n < Len(s) THEN n ELSE Len(s))

Min(a, b) == IF a < b THEN a ELSE b
Max(a, b) == IF a > b THEN a ELSE b

-----------------------------------------------------------------------------
(* Natural numbers beyond the range of the integers of the checker *)

\* A natural number of any size is the sequence of its digits in base Limb,
\* least significant first, without a leading zero digit; zero is <<>>.
Limb == 32768
LimbBits == 15

RECURSIVE Pow2(_)
Pow2(k) == IF k = 0 THEN 1 ELSE 2 * Pow2(k - 1)

RECURSIVE BigTrim(_)
BigTrim(a) == IF a # <<>> /\ a[Len(a)] = 0 THEN BigTrim(SubSeq(a, 1, Len(a) - 1)) ELSE a

RECURSIVE BigOf(_)
BigOf(n) == IF n = 0 THEN <<>> ELSE <<n % Limb>> \o BigOf(n \div Limb)

BigDigit(a, i) == IF i <= Len(a) THEN a[i] ELSE 0

\* -1, 0 or 1 as a is below, equal to or above b
RECURSIVE BigCmpFrom(_, _, _)
BigCmpFrom(a, b, i) ==
    IF i = 0 THEN 0
    ELSE IF a[i] < b[i] THEN 0 - 1
    ELSE IF a[i] > b[i] THEN 1
    ELSE BigCmpFrom(a, b, i - 1)

BigCmp(a, b) ==
    IF Len(a) < Len(b) THEN 0 - 1
    ELSE IF Len(a) > Len(b) THEN 1
    ELSE BigCmpFrom(a, b, Len(a))

RECURSIVE BigAddFrom(_, _, _, _)
BigAddFrom(a, b, i, carry) ==
    IF i > Len(a) /\ i > Len(b)
    THEN IF carry = 0 THEN <<>> ELSE <<carry>>
    ELSE LET sum == BigDigit(a, i) + BigDigit(b, i) + carry
         IN <<sum % Limb>> \o BigAddFrom(a, b, i + 1, sum \div Limb)

BigAdd(a, b) == BigAddFrom(a, b, 1, 0)

\* a - b for a >= b
RECURSIVE BigSubFrom(_, _, _, _)
BigSubFrom(a, b, i, borrow) ==
    IF i > Len(a) THEN <<>>
    ELSE LET d == a[i] - BigDigit(b, i) - borrow
         IN IF d < 0 THEN <<d + Limb>> \o BigSubFrom(a, b, i + 1, 1)
            ELSE <<d>> \o BigSubFrom(a, b, i + 1, 0)

BigSub(a, b) == BigTrim(BigSubFrom(a, b, 1, 0))

\* a * k for a digit k
RECURSIVE BigMulDigitFrom(_, _, _, _)
BigMulDigitFrom(a, k, i, carry) ==
    IF i > Len(a) THEN IF carry = 0 THEN <<>> ELSE <<carry>>
    ELSE LET p == a[i] * k + carry
         IN <<p % Limb>> \o BigMulDigitFrom(a, k, i + 1, p \div Limb)

BigMulDigit(a, k) == IF k = 0 THEN <<>> ELSE BigMulDigitFrom(a, k, 1, 0)

BigShiftDigits(a, n) == IF a = <<>> THEN <<>> ELSE [i \in 1..n |-> 0] \o a

RECURSIVE BigMulFrom(_, _, _)
BigMulFrom(a, b, i) ==
    IF i > Len(b) THEN <<>>
    ELSE BigAdd(BigShiftDigits(BigMulDigit(a, b[i]), i - 1), BigMulFrom(a, b, i + 1))

BigMul(a, b) == BigMulFrom(a, b, 1)

\* quotient and remainder of a by a divisor d below 2 * Limb
RECURSIVE BigDivFrom(_, _, _, _)
BigDivFrom(a, d, i, rem) ==
    IF i = 0 THEN [q |-> <<>>, r |-> rem]
    ELSE LET cur == rem * Limb + a[i]
             rest == BigDivFrom(a, d, i - 1, cur % d)
         IN [q |-> Append(rest.q, cur \div d), r |-> rest.r]

BigDiv(a, d) ==
    LET res == BigDivFrom(a, d, Len(a), 0)
    IN [q |-> BigTrim(res.q), r |-> res.r]

\* a * 2^n and floor(a / 2^n)
BigShl(a, n) == BigShiftDigits(BigMulDigit(a, Pow2(n % LimbBits)), n \div LimbBits)

BigShr(a, n) ==
    LET whole == n \div LimbBits
        kept == IF whole >= Len(a) THEN <<>> ELSE SubSeq(a, whole + 1, Len(a))
    IN BigDiv(kept, Pow2(n % LimbBits)).q

RECURSIVE BitsOf(_)
BitsOf(n) == IF n = 0 THEN 0 ELSE 1 + BitsOf(n \div 2)

\* the number of binary digits of a
BigBits(a) == IF a = <<>> THEN 0 ELSE LimbBits * (Len(a) - 1) + BitsOf(a[Len(a)])

BigOdd(a) == a # <<>> /\ a[1] % 2 = 1

-----------------------------------------------------------------------------
(* Numbers.  A JavaScript number that is not an integer of the model is an  *)
(* IEEE 754 double, computed with roundTiesToEven; infinities, NaN, the     *)
(* negative zero and subnormal numbers are not reached by the program's     *)
(* arithmetic on confidences and have no representation.                    *)
Precision == 53

\* the double (-1)^neg * m * 2^e with m of exactly Precision binary digits; zero
Double(neg, m, e) == [neg |-> neg, m |-> m, e |-> e]
FZero == Double(FALSE, <<>>, 0)
IsZero(x) == x.m = <<>>

\* roundTiesToEven of the exact value (-1)^neg * m * 2^e
RoundToDouble(neg, m, e) ==
    LET bits == BigBits(m)
    IN IF bits = 0 THEN FZero
       ELSE IF bits <= Precision
       THEN Double(neg, BigShl(m, Precision - bits), e - (Precision - bits))
       ELSE LET k == bits - Precision
                q == BigShr(m, k)
                rem == BigSub(m, BigShl(q, k))
                half == BigShl(<<1>>, k - 1)
                c == BigCmp(rem, half)
                up == c = 1 \/ (c = 0 /\ BigOdd(q))
                q2 == IF up THEN BigAdd(q, <<1>>) ELSE q
            IN IF BigBits(q2) > Precision
               THEN Double(neg, BigShr(q2, 1), e + k + 1)
               ELSE Double(neg, q2, e + k)

FNeg(x) == IF IsZero(x) THEN x ELSE [x EXCEPT !.neg = ~x.neg]

\* x + y
FAdd(x, y) ==
    IF IsZero(x) THEN y
    ELSE IF IsZero(y) THEN x
    ELSE LET e0 == IF x.e < y.e THEN x.e ELSE y.e
             a == BigShl(x.m, x.e - e0)
             b == BigShl(y.m, y.e - e0)
             c == BigCmp(a, b)
         IN IF x.neg = y.neg THEN RoundToDouble(x.neg, BigAdd(a, b), e0)
            ELSE IF c = 0 THEN FZero
            ELSE IF c = 1 THEN RoundToDouble(x.neg, BigSub(a, b), e0)
            ELSE RoundToDouble(y.neg, BigSub(b, a), e0)

FSub(x, y) == FAdd(x, FNeg(y))

FMul(x, y) ==
    IF IsZero(x) \/ IsZero(y) THEN FZero
    ELSE RoundToDouble(x.neg # y.neg, BigMul(x.m, y.m), x.e + y.e)

\* n / d for integers n >= 0 and 0 < d < 2 * Limb, both exact as doubles
GuardBits == 72
FDivInt(n, d) ==
    LET res == BigDiv(BigShl(BigOf(n), GuardBits), d)
        sticky == IF res.r = 0 THEN <<>> ELSE <<1>>
    IN RoundToDouble(FALSE, BigAdd(BigShl(res.q, 1), sticky), 0 - (GuardBits + 1))

\* x < y
FLess(x, y) ==
    IF IsZero(x) THEN ~IsZero(y) /\ ~y.neg
    ELSE IF IsZero(y) THEN x.neg
    ELSE IF x.neg # y.neg THEN x.neg
    ELSE LET below == x.e < y.e \/ (x.e = y.e /\ BigCmp(x.m, y.m) < 0)
             above == x.e > y.e \/ (x.e = y.e /\ BigCmp(x.m, y.m) > 0)
         IN IF x.neg THEN above ELSE below

FMin(x, y) == IF FLess(y, x) THEN y ELSE x
FMax(x, y) == IF FLess(x, y) THEN y ELSE x

\* the number literals milli / 1000 of the program (0.02, 0.05, 0.1, 0.6, 0.8,
\* 1): the double nearest to each, converted once
Literals ==
    [milli \in {DecayRateDefault, PruneBelowDefault, 100, SeedSelfLearning, SeedManual, 1000}
        |-> FDivInt(milli, 1000)]

Conf(milli) == Literals[milli]

\* (now - entry.updatedAt) / oneWeekMs for every age in hours a behaviour has
AgeWeeks == [h \in 0..(MaxNowMem + 1) |-> FDivInt(h, OneWeekH)]

-----------------------------------------------------------------------------
(* Long-term memory store *)

UsedEntryIds(es) == {es[i].id : i \in 1..Len(es)}

\* nanoid(): an identifier not in use
FreshId(used) == CHOOSE id \in 1..(Cardinality(used) + 1) : id \notin used

\* addEntry: the new entry list (entries.value = [...entries.value, entry])
addEntry(es, id, content, tags, source, t) ==
    Append(es, [id |-> id,
                content |-> Trim(content),
                tags |-> tags,
                source |-> source,
                confidence |-> IF source = "self-learning"
                               THEN Conf(SeedSelfLearning) ELSE Conf(SeedManual),
                useCount |-> 0,
                createdAt |-> t,
                updatedAt |-> t])

\* updateEntry(id, content, tags?): tags is the sequence of the argument when
\* it is given and the empty sequence when it is not (tags ?? entry.tags)
updateEntry(es, id, content, tags, t) ==
    [i \in 1..Len(es) |->
        IF es[i].id = id
        THEN [es[i] EXCEPT !.content = Trim(content),
                           !.tags = IF tags = <<>> THEN es[i].tags ELSE tags[1],
                           !.updatedAt = t]
        ELSE es[i]]

deleteEntry(es, id) == SelectSeq(es, LAMBDA e : e.id # id)

clearAllEntries(es) == <<>>

\* boostConfidence(id, delta): delta a double
boostConfidence(es, id, delta, t) ==
    [i \in 1..Len(es) |->
        IF es[i].id = id
        THEN [es[i] EXCEPT !.confidence = FMin(Conf(1000), FAdd(es[i].confidence, delta)),
                           !.useCount = es[i].useCount + 1,
                           !.updatedAt = t]
        ELSE es[i]]

\* decayConfidence that also prunes an entry exactly at pruneBelow
decayConfidence_PrunesAtThreshold(es, rateMilli, pruneMilli, t) ==
    LET decayed == [i \in 1..Len(es) |->
                       LET ageWeeks == AgeWeeks[t - es[i].updatedAt]
                       IN [es[i] EXCEPT !.confidence =
                              FMax(FZero, FSub(es[i].confidence,
                                               FMul(Conf(rateMilli), ageWeeks)))]]
    IN SelectSeq(decayed, LAMBDA e : FLess(Conf(pruneMilli), e.confidence))

\* decayConfidence(decayRate, pruneBelow), the arguments given in thousandths:
\* ageWeeks = (now - entry.updatedAt) / oneWeekMs is the quotient of two whole
\* numbers of hours, decayed = entry.confidence - decayRate * ageWeeks
decayConfidence(es, rateMilli, pruneMilli, t) ==
    LET decayed == [i \in 1..Len(es) |->
                       LET ageWeeks == AgeWeeks[t - es[i].updatedAt]
                       IN [es[i] EXCEPT !.confidence =
                              FMax(FZero, FSub(es[i].confidence,
                                               FMul(Conf(rateMilli), ageWeeks)))]]
    IN SelectSeq(decayed, LAMBDA e : ~FLess(e.confidence, Conf(pruneMilli)))

\* comparator of sortedEntries: negative when a sorts before b
Before(a, b) ==
    IF b.confidence # a.confidence
    THEN FLess(FSub(b.confidence, a.confidence), FZero)
    ELSE b.updatedAt - a.updatedAt < 0

\* Array.prototype.sort is stable: insert each element after the elements that
\* do not sort after it.
RECURSIVE InsertSorted(_, _)
InsertSorted(sorted, e) ==
    IF sorted = <<>> THEN <<e>>
    ELSE IF Before(e, Head(sorted)) THEN <<e>> \o sorted
         ELSE <<Head(sorted)>> \o InsertSorted(Tail(sorted), e)

RECURSIVE SortFrom(_, _)
SortFrom(es, acc) ==
    IF es = <<>> THEN acc ELSE SortFrom(Tail(es), InsertSorted(acc, Head(es)))

sortedEntries(es) == SortFrom(es, <<>>)

\* recentEntries.forEach(entry => boostConfidence(entry.id, delta))
RECURSIVE BoostAll(_, _, _, _)
\* getEntriesForContext that reads entries in place of sortedEntries
getEntriesForContext_Unranked(en, maxInjected, es) ==
    IF ~en THEN <<>>
    ELSE IF maxInjected > 0 THEN Slice0(es, maxInjected)
    ELSE es

\* getEntriesForContext() of a store whose flags are en and maxInjected
getEntriesForContext(en, maxInjected, es) ==
    IF ~en THEN <<>>
    ELSE IF maxInjected > 0 THEN Slice0(sortedEntries(es), maxInjected)
    ELSE sortedEntries(es)

BoostAll(es, targets, delta, t) ==
    IF targets = <<>> THEN es
    ELSE BoostAll(boostConfidence(es, Head(targets).id, delta, t), Tail(targets), delta, t)

\* value === 'up' ? 0.05 : -0.05
giveFeedbackEntries(es, value, t) ==
    BoostAll(es, Slice0(sortedEntries(es), FeedbackTop),
             IF value = "up" THEN Conf(BoostDefault) ELSE FNeg(Conf(BoostDefault)), t)

-----------------------------------------------------------------------------
(* Self-learning store: topics, run ledger, schedule *)

\* The createdAt of a topic is never read and is left out.
addTopic(ts, id, name, hint) ==
    Append(ts, [id |-> id, name |-> Trim(name), hint |-> Trim(hint), enabled |-> TRUE])

\* updateTopic(id, patch): patch is a record with some of name, hint, enabled
updateTopic(ts, id, patch) ==
    [i \in 1..Len(ts) |->
        IF ts[i].id = id
        THEN [f \in DOMAIN ts[i] |-> IF f \in DOMAIN patch THEN patch[f] ELSE ts[i][f]]
        ELSE ts[i]]

deleteTopic(ts, id) == SelectSeq(ts, LAMBDA t : t.id # id)

configured(en, ts) == en /\ \E i \in 1..Len(ts) : ts[i].enabled

activeTopics(ts) == SelectSeq(ts, LAMBDA t : t.enabled)

latestRun(h) == IF h = <<>> THEN Null ELSE h[1]

\* an isRunning that is true only while the task of the run is alive
isRunning_WhileTaskAlive(h) == h # <<>> /\ latestRun(h).status = "running" /\ tasks # {}

\* latestRun.value?.status === 'running'
isRunning(h) == h # <<>> /\ latestRun(h).status = "running"

UsedRunIds(h) == {h[i].id : i \in 1..Len(h)}

\* the record startRun creates
NewRun(id, topicNames, t) ==
    [id |-> id, startedAt |-> t, completedAt |-> NoTime, status |-> "running",
     topicsProcessed |-> topicNames, insightsSaved |-> 0, error |-> Null]

\* startRun without the truncation
startRun_NoTruncation(h, id, topicNames, t) == <<NewRun(id, topicNames, t)>> \o h

\* startRun: the new history
startRun(h, id, topicNames, t) == Slice0(<<NewRun(id, topicNames, t)>> \o h, HistoryLimit)

\* completeRun that forgets lastRunAt.value = now
completeRun_KeepsBaseline(h, lra, runId, insightsSaved, t) ==
    [runHistory |->
        [i \in 1..Len(h) |->
            IF h[i].id = runId
            THEN [h[i] EXCEPT !.status = "done", !.completedAt = t,
                              !.insightsSaved = insightsSaved]
            ELSE h[i]],
     lastRunAt |-> lra]

\* completeRun that marks every record of the history, not the one of runId
completeRun_EveryRecord(h, lra, runId, insightsSaved, t) ==
    [runHistory |->
        [i \in 1..Len(h) |->
            [h[i] EXCEPT !.status = "done", !.completedAt = t,
                         !.insightsSaved = insightsSaved]],
     lastRunAt |-> t]

\* completeRun: the new history and lastRunAt
completeRun(h, lra, runId, insightsSaved, t) ==
    [runHistory |->
        [i \in 1..Len(h) |->
            IF h[i].id = runId
            THEN [h[i] EXCEPT !.status = "done", !.completedAt = t,
                              !.insightsSaved = insightsSaved]
            ELSE h[i]],
     lastRunAt |-> t]

\* failRun that advances lastRunAt as completeRun does
failRun_AdvancesBaseline(h, lra, runId, error, t) ==
    [runHistory |->
        [i \in 1..Len(h) |->
            IF h[i].id = runId
            THEN [h[i] EXCEPT !.status = "error", !.completedAt = t, !.error = error]
            ELSE h[i]],
     lastRunAt |-> t]

\* failRun: the new history and lastRunAt
failRun(h, lra, runId, error, t) ==
    [runHistory |->
        [i \in 1..Len(h) |->
            IF h[i].id = runId
            THEN [h[i] EXCEPT !.status = "error", !.completedAt = t, !.error = error]
            ELSE h[i]],
     lastRunAt |-> lra]

Interval(sched) ==
    CASE sched = "hourly" -> HourlyH
      [] sched = "daily" -> DailyH
      [] sched = "weekly" -> WeeklyH

\* isDue that does not look at lastRunAt
isDue_IgnoresBaseline(sched, lra, t) == sched # "manual"

\* isDue that wants more than the interval to have elapsed
isDue_StrictlyLater(sched, lra, t) ==
    IF sched = "manual" \/ lra = NoTime \/ lra = 0
    THEN sched # "manual"
    ELSE t - lra > Interval(sched)

\* !lastRunAt.value is true for null and for 0
isDue(sched, lra, t) ==
    IF sched = "manual" \/ lra = NoTime \/ lra = 0
    THEN sched # "manual"
    ELSE t - lra >= Interval(sched)

-----------------------------------------------------------------------------
(* The learning loop: pure parts *)

\* deduplicateInsights, against the entries es
IsDuplicateOf(insight, e) ==
    LET words == SplitWs(ToLowerCase(insight))
        matches == SelectSeq(words, LAMBDA w : Len(w) > SignificantLen /\ Includes(e, w))
    IN \* matches.length / words.length >= 0.6
       DupDen * Len(matches) >= DupNum * Len(words)

\* deduplicateInsights against a snapshot that misses the entries made by hand
deduplicateInsights_MissesManual(es, insights) ==
    LET learned == SelectSeq(es, LAMBDA e : e.source = "self-learning")
        existing == [i \in 1..Len(learned) |-> ToLowerCase(learned[i].content)]
    IN SelectSeq(insights,
                 LAMBDA insight : ~ \E i \in 1..Len(existing) :
                                        IsDuplicateOf(insight, existing[i]))

\* deduplicateInsights that also compares a candidate with the candidates
\* kept before it
RECURSIVE DedupAgainstKept(_, _, _)
DedupAgainstKept(existing, insights, kept) ==
    IF insights = <<>> THEN kept
    ELSE IF \E i \in 1..Len(existing) : IsDuplicateOf(Head(insights), existing[i])
         THEN DedupAgainstKept(existing, Tail(insights), kept)
         ELSE DedupAgainstKept(Append(existing, ToLowerCase(Head(insights))),
                               Tail(insights), Append(kept, Head(insights)))

deduplicateInsights_WithinBatch(es, insights) ==
    DedupAgainstKept([i \in 1..Len(es) |-> ToLowerCase(es[i].content)], insights, <<>>)

deduplicateInsights(es, insights) ==
    LET existing == [i \in 1..Len(es) |-> ToLowerCase(es[i].content)]
    IN SelectSeq(insights,
                 LAMBDA insight : ~ \E i \in 1..Len(existing) :
                                        IsDuplicateOf(insight, existing[i]))

\* distillInsights on the array parsed from the model's answer:
\* .filter(s => s.trim().length > 0).map(s => s.trim()).slice(0, 8)
distillParse(items) ==
    LET kept == SelectSeq(items, LAMBDA x : Len(Trim(x)) > 0)
    IN Slice0([i \in 1..Len(kept) |-> Trim(kept[i])], MaxInsights)

\* webSearchStore.search(query, count) on what the provider answers: every
\* provider branch ends in .slice(0, limit), limit = max(1, min(count, 10))
search(provided, count) == Slice0(provided, Max(1, Min(count, 10)))

\* JUDGE that drops the empty URLs before it takes the first maxPagesPerTopic
topUrlsOf_FilterFirst(results, maxPages) ==
    LET urls == [i \in 1..Len(results) |-> results[i].url]
    IN Slice0(SelectSeq(urls, LAMBDA x : x # ""), maxPages)

\* JUDGE: results.slice(0, maxPagesPerTopic).map(r => r.url).filter(Boolean)
topUrlsOf(results, maxPages) ==
    LET urls == [i \in 1..Len(Slice0(results, maxPages)) |-> results[i].url]
    IN SelectSeq(urls, LAMBDA x : x # "")

\* a fetched page is kept when content.trim().length > 200
keepPage(trimLen) == trimLen > MinPageLen

\* CONSOLIDATE that leaves the source of addEntry to its default, 'manual'
RECURSIVE saveInsights_DefaultSource(_, _, _, _)
saveInsights_DefaultSource(es, novel, topicName, t) ==
    IF novel = <<>> THEN es
    ELSE saveInsights_DefaultSource(
             addEntry(es, FreshId(UsedEntryIds(es)), Head(novel),
                      <<topicName, Str_SelfLearning>>, "manual", t),
             Tail(novel), topicName, t)

\* CONSOLIDATE: addEntry for every novel insight, in order
RECURSIVE saveInsights(_, _, _, _)
saveInsights(es, novel, topicName, t) ==
    IF novel = <<>> THEN es
    ELSE saveInsights(addEntry(es, FreshId(UsedEntryIds(es)), Head(novel),
                               <<topicName, Str_SelfLearning>>, "self-learning", t),
                      Tail(novel), topicName, t)

\* the guard without its isRunning test
guardReturnsZero_NoFlightTest(en, h) == ~en

\* the guard with && in place of ||
guardReturnsZero_And(en, h) == ~en /\ isRunning(h)

\* runLearningLoop, first line: the disabled / in-flight guard
guardReturnsZero(en, h) == ~en \/ isRunning(h)

\* the pre-flight checks without the web-search test
preflightError_NoSearchTest(provOk, searchOk, ts) ==
    IF ~provOk THEN "No active LLM provider configured"
    ELSE IF activeTopics(ts) = <<>> THEN "No learning topics configured"
    ELSE Null

\* runLearningLoop, pre-flight: the message thrown, or Null (the en dash and
\* the arrow of the second message are written '-' and '->')
preflightError(provOk, searchOk, ts) ==
    IF ~provOk THEN "No active LLM provider configured"
    ELSE IF ~searchOk THEN "Web search is not configured - enable it in Modules -> Web Search"
    ELSE IF activeTopics(ts) = <<>> THEN "No learning topics configured"
    ELSE Null

-----------------------------------------------------------------------------
(* Memory store operations as steps *)

\* contents a user types into the memory settings page
ManualContents == {Str_PyOld, Str(<<" ", "G", "I", "L", " ">>)}

\* the store as it can be found in localStorage at start-up, one week after
\* time 0: empty, or holding a self-learning entry created at time 0 that
\* decayConfidence() calls have since brought from 0.6 to 0.1
PersistedEntries ==
    {<<>>,
     <<[id |-> 1, content |-> Str_RustSafe, tags |-> <<>>, source |-> "self-learning",
        confidence |-> Conf(100), useCount |-> 0, createdAt |-> 0, updatedAt |-> 0]>>}

\* memory-long-term.vue addEntry(): trims, ignores an empty content
MemAddOf(contents, limit) ==
    /\ Len(entries) < limit
    /\ \E raw \in contents :
          LET content == Trim(raw)
          IN /\ content # <<>>
             /\ entries' = addEntry(entries, FreshId(UsedEntryIds(entries)), content,
                                    <<>>, "manual", now)
    /\ UNCHANGED <<now, feedback>>
    /\ lastCall' = Called("addEntry")
    /\ lastContext' = NoContext
    /\ UNCHANGED <<memEnabled, maxInjectedEntries>>
    /\ UNCHANGED storeVars
    /\ UNCHANGED summarizing

\* what a caller of updateEntry passes: <<content, tags>>, here without tags
UpdateInputs == {<<Str(<<" ", "G", "I", "L", " ">>), <<>>>>}

\* store.updateEntry(id, content, tags) on an entry of the store
MemUpdate ==
    /\ \E id \in UsedEntryIds(entries), in \in UpdateInputs :
          entries' = updateEntry(entries, id, in[1], in[2], now)
    /\ UNCHANGED <<now, feedback>>
    /\ lastCall' = Called("updateEntry")
    /\ lastContext' = NoContext
    /\ UNCHANGED <<memEnabled, maxInjectedEntries>>
    /\ UNCHANGED storeVars
    /\ UNCHANGED summarizing

\* the number of user and assistant messages of the chat session at the call
SessionLengths == {MinExchanges - 1, MinExchanges}

\* what generateText answers to the summary prompt
SummaryAnswers ==
    {Str(<<" ", " ">>),
     Str(<<" ", "T", "h", "e", "y", " ", "t", "a", "l", "k", "e", "d", " ", "a", "b", "o", "u",
           "t", " ", "R", "u", "s", "t", ".", " ">>)}

\* the calendar of Date: leap years and the lengths of the months
IsLeapYear(y) == (y % 4 = 0 /\ y % 100 # 0) \/ y % 400 = 0
DaysInYear(y) == IF IsLeapYear(y) THEN 366 ELSE 365
MonthLengths(y) ==
    <<31, IF IsLeapYear(y) THEN 29 ELSE 28, 31, 30, 31, 30, 31, 31, 30, 31, 30, 31>>

\* <<year, day within the year>> of the day-th day counted from 1 January of y
RECURSIVE YearFromDay(_, _)
YearFromDay(day, y) ==
    IF day < DaysInYear(y) THEN <<y, day>> ELSE YearFromDay(day - DaysInYear(y), y + 1)

\* <<month, day of the month>> of the day-th day of a year whose months,
\* from the m-th on, have the lengths lens
RECURSIVE MonthFromDay(_, _, _)
MonthFromDay(day, lens, m) ==
    IF day < lens[m] THEN <<m, day + 1>> ELSE MonthFromDay(day - lens[m], lens, m + 1)

\* a natural number in decimal digits
RECURSIVE Decimal(_)
Decimal(n) == IF n < 10 THEN <<48 + n>> ELSE Decimal(n \div 10) \o <<48 + (n % 10)>>

\* new Date().toLocaleDateString() at the hour t since the epoch, in the
\* en-US locale and the UTC time zone: month/day/year without padding
toLocaleDateString(t) ==
    LET yd == YearFromDay(t \div 24, 1970)
        md == MonthFromDay(yd[2], MonthLengths(yd[1]), 1)
    IN Decimal(md[1]) \o Str(<<"/">>) \o Decimal(md[2]) \o Str(<<"/">>) \o Decimal(yd[1])

\* the text summarizeCurrentSession stores: `[Session ${date}] ${summary}`
sessionEntry(date, summary) ==
    Str(<<"[", "S", "e", "s", "s", "i", "o", "n", " ">>) \o date \o Str(<<"]", " ">>) \o summary

Tags_Session ==
    <<Str(<<"e", "p", "i", "s", "o", "d", "e">>),
      Str(<<"s", "e", "s", "s", "i", "o", "n", "-", "s", "u", "m", "m", "a", "r", "y">>)>>

\* useSessionSummarizer().summarizeCurrentSession() up to its first await.
\* With no provider or no model set, or with fewer than 4 exchanges, it
\* returns null at once and nothing changes; otherwise the call is suspended
\* at await providersStore.getProviderInstance(...)
SummarizeCall ==
    /\ Cardinality(summarizing) < MaxSummarizers
    /\ providerOk
    /\ \E n \in SessionLengths :
          /\ n >= MinExchanges
          /\ summarizing' = summarizing \cup
                {[id |-> FreshId({s.id : s \in summarizing}), pc |-> "provider"]}
    /\ UNCHANGED memVars
    /\ UNCHANGED <<now, learnVars>>
    /\ UNCHANGED ctxVars

\* await providersStore.getProviderInstance(...) of a summary settles: the
\* call goes on to await generateText(...), or the rejection is caught and the
\* call returns null
SummarizeProviderReturn ==
    /\ \E s \in summarizing :
          /\ s.pc = "provider"
          /\ \/ summarizing' = (summarizing \ {s}) \cup {[s EXCEPT !.pc = "generate"]}
             \/ summarizing' = summarizing \ {s}
    /\ UNCHANGED memVars
    /\ UNCHANGED <<now, learnVars>>
    /\ UNCHANGED ctxVars

\* await generateText(...) of a summary settles.  A rejection is caught and a
\* blank answer is dropped: the call returns null.  Any other answer is
\* trimmed and stored with addEntry under the date of that moment, without
\* deduplication, whatever has become of the provider setting since the call
SummarizeGenerateReturnOf(limit) ==
    /\ \E s \in summarizing :
          /\ s.pc = "generate"
          /\ summarizing' = summarizing \ {s}
          /\ \/ UNCHANGED <<entries, lastCall, lastContext>>
             \/ \E answer \in SummaryAnswers :
                   LET summary == Trim(answer)
                   IN IF summary = <<>>
                      THEN UNCHANGED <<entries, lastCall, lastContext>>
                      ELSE /\ Len(entries) < limit
                           /\ entries' = addEntry(entries, FreshId(UsedEntryIds(entries)),
                                                  sessionEntry(toLocaleDateString(now), summary),
                                                  Tags_Session, "self-learning", now)
                           /\ lastCall' = Called("addEntry")
                           /\ lastContext' = NoContext
    /\ UNCHANGED <<now, feedback>>
    /\ UNCHANGED <<memEnabled, maxInjectedEntries>>
    /\ UNCHANGED storeVars

\* resetState() of the memory store: enabled.reset(), maxInjectedEntries.reset();
\* the entries are kept
MemResetState ==
    /\ memEnabled' = TRUE
    /\ maxInjectedEntries' = MaxInjectedDefault
    /\ UNCHANGED <<now, entries, feedback>>
    /\ lastCall' = Called("resetState")
    /\ lastContext' = NoContext
    /\ UNCHANGED storeVars
    /\ UNCHANGED summarizing

MemDelete ==
    /\ \E id \in UsedEntryIds(entries) : entries' = deleteEntry(entries, id)
    /\ UNCHANGED <<now, feedback>>
    /\ lastCall' = Called("deleteEntry")
    /\ lastContext' = NoContext
    /\ UNCHANGED <<memEnabled, maxInjectedEntries>>
    /\ UNCHANGED storeVars
    /\ UNCHANGED summarizing

MemClear ==
    /\ entries # <<>>
    /\ entries' = clearAllEntries(entries)
    /\ UNCHANGED <<now, feedback>>
    /\ lastCall' = Called("clearAllEntries")
    /\ lastContext' = NoContext
    /\ UNCHANGED <<memEnabled, maxInjectedEntries>>
    /\ UNCHANGED storeVars
    /\ UNCHANGED summarizing

\* search-progress.vue giveFeedback(value)
GiveFeedback ==
    /\ \E value \in {"up", "down"} :
          IF feedback = value
          THEN /\ feedback' = Null
               /\ UNCHANGED entries
          ELSE /\ \A i \in 1..Len(entries) : entries[i].useCount < MaxVotes
               /\ feedback' = value
               /\ entries' = giveFeedbackEntries(entries, value, now)
    /\ UNCHANGED now
    /\ lastCall' = Called("giveFeedback")
    /\ lastContext' = NoContext
    /\ UNCHANGED <<memEnabled, maxInjectedEntries>>
    /\ UNCHANGED storeVars
    /\ UNCHANGED summarizing

\* a new assistant response is rendered: const feedback = ref(null)
NewMessage ==
    /\ feedback # Null
    /\ feedback' = Null
    /\ UNCHANGED <<now, entries>>
    /\ lastCall' = Called("newMessage")
    /\ lastContext' = NoContext
    /\ UNCHANGED <<memEnabled, maxInjectedEntries>>
    /\ UNCHANGED storeVars
    /\ UNCHANGED summarizing

\* decayConfidence() with its default arguments
Decay ==
    /\ entries' = decayConfidence(entries, DecayRateDefault, PruneBelowDefault, now)
    /\ UNCHANGED <<now, feedback>>
    /\ lastCall' = Called("decayConfidence")
    /\ lastContext' = NoContext
    /\ UNCHANGED <<memEnabled, maxInjectedEntries>>
    /\ UNCHANGED storeVars
    /\ UNCHANGED summarizing

\* the clock advances by two weeks
TickMem ==
    /\ \E d \in {2 * OneWeekH} :
          /\ now + d <= MaxNowMem
          /\ now' = now + d
    /\ UNCHANGED memVars
    /\ lastCall' = NoCall
    /\ lastContext' = NoContext
    /\ UNCHANGED <<memEnabled, maxInjectedEntries>>
    /\ UNCHANGED storeVars
    /\ UNCHANGED summarizing


-----------------------------------------------------------------------------
(* The learning loop as steps.  A task is one runLearningLoop invocation that  *)
(* got past startRun and is suspended at an await: pc names the await          *)
(* (provider: getProviderInstance, search: webSearchStore.search, fetch:       *)
(* readPage, distill: distillInsights).                                        *)

\* what a user types as a topic: <<name, hint>>
TopicInputs == {<<Str(<<" ", "A", "I">>), <<>>>>, <<Str_Go, Str_1x>>}

\* how webSearchStore.search settles: it throws, or resolves to results (only
\* the url of a result is read)
SearchThrows == [ok |-> FALSE, results |-> <<>>]
SearchResolves(results) == [ok |-> TRUE, results |-> results]

\* how the model's answer turns out: the array found in it, or not ok when
\* generateText threw, the answer was empty, held no array or did not parse
LlmFailed == [ok |-> FALSE, items |-> <<>>]
LlmArray(a) == [ok |-> TRUE, items |-> a]

\* the collaborators of a run: the outcomes search can have, the values
\* content.trim().length of a page read by readPage can have ('' on any
\* failure), the outcomes the model's answer can have
AnyCollab ==
    [search |-> {SearchThrows, SearchResolves(<<>>),
                 SearchResolves(<<[url |-> "https://a"]>>)},
     fetch |-> {0, 200, 201},
     llm |-> {LlmFailed, LlmArray(<<Str_RustSafe>>)}]

\* messages of the errors getProviderInstance and search can throw
ThrownErrors == {"network error"}

\* a catch block that re-throws without failRun
Fail_NoRecord(t, message) ==
    /\ tasks' = tasks \ {t}
    /\ lastCall' = Result("runLearningLoop", t.caller, "threw", NoValue, message, t.run)
    /\ UNCHANGED <<runHistory, lastRunAt, entries>>

\* a catch block that takes the entries of the failed run out of the store
Fail_RollsBack(t, message) ==
    LET r == failRun(runHistory, lastRunAt, t.run, message, now)
    IN /\ runHistory' = r.runHistory
       /\ lastRunAt' = r.lastRunAt
       /\ tasks' = tasks \ {t}
       /\ lastCall' = Result("runLearningLoop", t.caller, "threw", NoValue, message, t.run)
       /\ entries' = SubSeq(entries, 1, Len(entries) - t.totalInsights)

\* the run settles with an exception: catch (err) { failRun(run.id, message); throw err }
Fail(t, message) ==
    LET r == failRun(runHistory, lastRunAt, t.run, message, now)
    IN /\ runHistory' = r.runHistory
       /\ lastRunAt' = r.lastRunAt
       /\ tasks' = tasks \ {t}
       /\ lastCall' = Result("runLearningLoop", t.caller, "threw", NoValue, message, t.run)
       /\ UNCHANGED entries

\* a for-loop that passes over every other topic
Advance_SkipsTopic(t, k, total) ==
    IF k + 1 <= Len(t.topicsToLearn)
    THEN /\ tasks' = (tasks \ {t}) \cup
                     {[t EXCEPT !.i = k + 1, !.pc = "search", !.topUrls = <<>>, !.u = 0,
                                !.pages = <<>>, !.totalInsights = total]}
         /\ UNCHANGED <<runHistory, lastRunAt, lastCall>>
    ELSE LET r == completeRun(runHistory, lastRunAt, t.run, total, now)
         IN /\ runHistory' = r.runHistory
            /\ lastRunAt' = r.lastRunAt
            /\ tasks' = tasks \ {t}
            /\ lastCall' = Result("runLearningLoop", t.caller, "returned", total, Null, t.run)

\* a for-loop that reads the list of enabled topics anew at every iteration
Advance_LiveTopics(t, k, total) ==
    IF k <= Len(activeTopics(topics))
    THEN /\ tasks' = (tasks \ {t}) \cup
                     {[t EXCEPT !.topicsToLearn = activeTopics(topics),
                                !.i = k, !.pc = "search", !.topUrls = <<>>, !.u = 0,
                                !.pages = <<>>, !.totalInsights = total]}
         /\ UNCHANGED <<runHistory, lastRunAt, lastCall>>
    ELSE LET r == completeRun(runHistory, lastRunAt, t.run, total, now)
         IN /\ runHistory' = r.runHistory
            /\ lastRunAt' = r.lastRunAt
            /\ tasks' = tasks \ {t}
            /\ lastCall' = Result("runLearningLoop", t.caller, "returned", total, Null, t.run)

\* the for-loop reaches topic k with the memory store es: the next search is
\* issued, or the loop is over and the run completes
Advance(t, k, total) ==
    IF k <= Len(t.topicsToLearn)
    THEN /\ tasks' = (tasks \ {t}) \cup
                     {[t EXCEPT !.i = k, !.pc = "search", !.topUrls = <<>>, !.u = 0,
                                !.pages = <<>>, !.totalInsights = total]}
         /\ UNCHANGED <<runHistory, lastRunAt, lastCall>>
    ELSE LET r == completeRun(runHistory, lastRunAt, t.run, total, now)
         IN /\ runHistory' = r.runHistory
            /\ lastRunAt' = r.lastRunAt
            /\ tasks' = tasks \ {t}
            /\ lastCall' = Result("runLearningLoop", t.caller, "returned", total, Null, t.run)

\* runLearningLoop with the pre-flight checks ahead of the guard
RunLearningLoop_PreflightFirst(caller) ==
    IF preflightError(providerOk, searchConfigured, topics) # Null
    THEN /\ lastCall' = Result("runLearningLoop", caller, "threw", NoValue,
                               preflightError(providerOk, searchConfigured, topics), NoRun)
         /\ UNCHANGED <<runHistory, tasks>>
    ELSE IF guardReturnsZero(enabled, runHistory)
    THEN /\ lastCall' = Result("runLearningLoop", caller, "returned", 0, Null, NoRun)
         /\ UNCHANGED <<runHistory, tasks>>
    ELSE LET topicsToLearn == activeTopics(topics)
             id == FreshId(UsedRunIds(runHistory))
         IN /\ Len(runHistory) < MaxRuns
            /\ runHistory' = startRun(runHistory, id,
                                      [i \in 1..Len(topicsToLearn) |-> topicsToLearn[i].name],
                                      now)
            /\ tasks' = tasks \cup
                        {[run |-> id, topicsToLearn |-> topicsToLearn, i |-> 0,
                          pc |-> "provider", topUrls |-> <<>>, u |-> 0, pages |-> <<>>,
                          totalInsights |-> 0, caller |-> caller]}
            /\ lastCall' = Result("runLearningLoop", caller, "pending", NoValue, Null, id)

\* runLearningLoop up to its first await
RunLearningLoop(caller) ==
    IF guardReturnsZero(enabled, runHistory)
    THEN /\ lastCall' = Result("runLearningLoop", caller, "returned", 0, Null, NoRun)
         /\ UNCHANGED <<runHistory, tasks>>
    ELSE IF preflightError(providerOk, searchConfigured, topics) # Null
    THEN /\ lastCall' = Result("runLearningLoop", caller, "threw", NoValue,
                               preflightError(providerOk, searchConfigured, topics), NoRun)
         /\ UNCHANGED <<runHistory, tasks>>
    ELSE LET topicsToLearn == activeTopics(topics)
             id == FreshId(UsedRunIds(runHistory))
         IN /\ Len(runHistory) < MaxRuns
            /\ runHistory' = startRun(runHistory, id,
                                      [i \in 1..Len(topicsToLearn) |-> topicsToLearn[i].name],
                                      now)
            /\ tasks' = tasks \cup
                        {[run |-> id, topicsToLearn |-> topicsToLearn, i |-> 0,
                          pc |-> "provider", topUrls |-> <<>>, u |-> 0, pages |-> <<>>,
                          totalInsights |-> 0, caller |-> caller]}
            /\ lastCall' = Result("runLearningLoop", caller, "pending", NoValue, Null, id)

\* the settings page's learn(), or any other direct caller
ManualRun ==
    /\ RunLearningLoop("manual")
    /\ UNCHANGED <<now, entries, feedback, enabled, schedule, topics, lastRunAt,
                   maxPagesPerTopic, providerOk, searchConfigured, collab>>
    /\ UNCHANGED ctxVars
    /\ UNCHANGED summarizing

checkAndRunIfDue ==
    IF isDue(schedule, lastRunAt, now) /\ configured(enabled, topics)
    THEN RunLearningLoop("schedule")
    ELSE /\ lastCall' = Result("checkAndRunIfDue", "schedule", "skipped", NoValue, Null, NoRun)
         /\ UNCHANGED <<runHistory, tasks>>

CheckAndRunIfDue ==
    /\ checkAndRunIfDue
    /\ UNCHANGED <<now, entries, feedback, enabled, schedule, topics, lastRunAt,
                   maxPagesPerTopic, providerOk, searchConfigured, collab>>
    /\ UNCHANGED ctxVars
    /\ UNCHANGED summarizing

\* await providersStore.getProviderInstance(...) settles
ProviderReturn ==
    /\ \E t \in tasks :
          /\ t.pc = "provider"
          /\ \/ /\ Advance(t, 1, 0)
                /\ UNCHANGED entries
             \/ \E m \in ThrownErrors : Fail(t, m)
    /\ UNCHANGED <<now, feedback, enabled, schedule, topics, maxPagesPerTopic,
                   providerOk, searchConfigured, collab>>
    /\ UNCHANGED ctxVars
    /\ UNCHANGED summarizing

\* await webSearchStore.search(query, 4) settles
SearchReturn ==
    /\ \E t \in tasks, outcome \in collab.search :
          /\ t.pc = "search"
          /\ \/ /\ ~outcome.ok
                /\ \E m \in ThrownErrors : Fail(t, m)
             \/ LET results == search(outcome.results, SearchLimit)
                IN /\ outcome.ok
                   /\ UNCHANGED entries
                   /\ IF results = <<>>
                      THEN Advance(t, t.i + 1, t.totalInsights)
                      ELSE LET topUrls == topUrlsOf(results, maxPagesPerTopic)
                           IN /\ tasks' = (tasks \ {t}) \cup
                                    {[t EXCEPT !.topUrls = topUrls,
                                               !.pc = IF topUrls = <<>> THEN "distill"
                                                      ELSE "fetch",
                                               !.u = IF topUrls = <<>> THEN 0 ELSE 1]}
                              /\ UNCHANGED <<runHistory, lastRunAt, lastCall>>
    /\ UNCHANGED <<now, feedback, enabled, schedule, topics, maxPagesPerTopic,
                   providerOk, searchConfigured, collab>>
    /\ UNCHANGED ctxVars
    /\ UNCHANGED summarizing

\* await readPage(url) settles (readPage never throws)
FetchReturn ==
    /\ \E t \in tasks :
          /\ t.pc = "fetch"
          /\ \E len \in collab.fetch :
                LET pages == IF keepPage(len)
                             THEN Append(t.pages, [url |-> t.topUrls[t.u], len |-> len])
                             ELSE t.pages
                    more == t.u < Len(t.topUrls)
                IN tasks' = (tasks \ {t}) \cup
                      {[t EXCEPT !.pages = pages,
                                 !.pc = IF more THEN "fetch" ELSE "distill",
                                 !.u = IF more THEN t.u + 1 ELSE t.u]}
    /\ UNCHANGED <<now, entries, feedback, enabled, schedule, topics, runHistory,
                   lastRunAt, maxPagesPerTopic, providerOk, searchConfigured, lastCall, collab>>
    /\ UNCHANGED ctxVars
    /\ UNCHANGED summarizing

\* a CONSOLIDATE that suspends between the duplicate decision and the writes:
\* the insights that passed the decision wait in the task
DistillReturn_AwaitsBeforeWrites ==
    /\ \E t \in tasks :
          \/ /\ t.pc = "distill"
             /\ \E answer \in collab.llm :
                   LET rawInsights == IF t.pages = <<>> \/ ~answer.ok THEN <<>>
                                      ELSE distillParse(answer.items)
                       novelInsights == deduplicateInsights(entries, rawInsights)
                   IN tasks' = (tasks \ {t}) \cup
                                  {[t EXCEPT !.pc = "write", !.pages = novelInsights]}
             /\ UNCHANGED <<entries, runHistory, lastRunAt, lastCall>>
          \/ /\ t.pc = "write"
             /\ Len(entries) + Len(t.pages) <= MaxEntries
             /\ entries' = saveInsights(entries, t.pages, t.topicsToLearn[t.i].name, now)
             /\ Advance(t, t.i + 1, t.totalInsights + Len(t.pages))
    /\ UNCHANGED <<now, feedback, enabled, schedule, topics, maxPagesPerTopic,
                   providerOk, searchConfigured, collab>>
    /\ UNCHANGED ctxVars
    /\ UNCHANGED summarizing

\* await distillInsights(...) settles (it never throws; with no page kept it
\* returns [] without calling generateText), then CONSOLIDATE and
\* the next iteration of the loop up to its next await
DistillReturn ==
    /\ \E t \in tasks :
          /\ t.pc = "distill"
          /\ \E answer \in collab.llm :
                LET rawInsights == IF t.pages = <<>> \/ ~answer.ok THEN <<>>
                                   ELSE distillParse(answer.items)
                    novelInsights == deduplicateInsights(entries, rawInsights)
                IN /\ Len(entries) + Len(novelInsights) <= MaxEntries
                   /\ entries' = saveInsights(entries, novelInsights,
                                              t.topicsToLearn[t.i].name, now)
                   /\ Advance(t, t.i + 1, t.totalInsights + Len(novelInsights))
    /\ UNCHANGED <<now, feedback, enabled, schedule, topics, maxPagesPerTopic,
                   providerOk, searchConfigured, collab>>
    /\ UNCHANGED ctxVars
    /\ UNCHANGED summarizing

-----------------------------------------------------------------------------
(* Settings and environment steps *)

SetEnabled ==
    /\ enabled' = ~enabled
    /\ UNCHANGED <<now, entries, feedback, schedule, topics, runHistory, lastRunAt,
                   maxPagesPerTopic, providerOk, searchConfigured, tasks, lastCall, collab>>
    /\ UNCHANGED ctxVars
    /\ UNCHANGED summarizing

\* self-learning.vue: v-for="opt in scheduleOptions" @click="schedule = opt.value"
SetSchedule ==
    /\ \E sched \in {"manual", "hourly", "daily", "weekly"} :
          /\ sched # schedule
          /\ schedule' = sched
    /\ UNCHANGED <<now, entries, feedback, enabled, topics, runHistory, lastRunAt,
                   maxPagesPerTopic, providerOk, searchConfigured, tasks, lastCall, collab>>
    /\ UNCHANGED ctxVars
    /\ UNCHANGED summarizing

\* self-learning.vue: v-for="n in [1, 2, 3, 5]" @click="maxPagesPerTopic = n"
SetMaxPages ==
    /\ \E n \in {1, 2, 3, 5} :
          /\ n # maxPagesPerTopic
          /\ maxPagesPerTopic' = n
    /\ UNCHANGED <<now, entries, feedback, enabled, schedule, topics, runHistory, lastRunAt,
                   providerOk, searchConfigured, tasks, lastCall, collab>>
    /\ UNCHANGED ctxVars
    /\ UNCHANGED summarizing

\* the consciousness module gets or loses its active provider and model
SetProvider ==
    /\ providerOk' = ~providerOk
    /\ UNCHANGED <<now, entries, feedback, enabled, schedule, topics, runHistory, lastRunAt,
                   maxPagesPerTopic, searchConfigured, tasks, lastCall, collab>>
    /\ UNCHANGED ctxVars
    /\ UNCHANGED summarizing

\* the web-search module becomes configured or not
SetSearchConfigured ==
    /\ searchConfigured' = ~searchConfigured
    /\ UNCHANGED <<now, entries, feedback, enabled, schedule, topics, runHistory, lastRunAt,
                   maxPagesPerTopic, providerOk, tasks, lastCall, collab>>
    /\ UNCHANGED ctxVars
    /\ UNCHANGED summarizing

UsedTopicIds(ts) == {ts[i].id : i \in 1..Len(ts)}

\* self-learning.vue addTopic(): ignores an empty name
AddTopic ==
    /\ Len(topics) < MaxTopics
    /\ \E in \in TopicInputs :
          /\ Trim(in[1]) # <<>>
          /\ topics' = addTopic(topics, FreshId(UsedTopicIds(topics)), Trim(in[1]), Trim(in[2]))
    /\ UNCHANGED <<now, entries, feedback, enabled, schedule, runHistory, lastRunAt,
                   maxPagesPerTopic, providerOk, searchConfigured, tasks, lastCall, collab>>
    /\ UNCHANGED ctxVars
    /\ UNCHANGED summarizing

\* self-learning.vue: updateTopic(topic.id, { enabled: !topic.enabled })
ToggleTopic ==
    /\ \E i \in 1..Len(topics) :
          topics' = updateTopic(topics, topics[i].id, [enabled |-> ~topics[i].enabled])
    /\ UNCHANGED <<now, entries, feedback, enabled, schedule, runHistory, lastRunAt,
                   maxPagesPerTopic, providerOk, searchConfigured, tasks, lastCall, collab>>
    /\ UNCHANGED ctxVars
    /\ UNCHANGED summarizing

\* what a caller of updateTopic passes to give a topic another name and hint;
\* updateTopic does not trim
TopicPatches == {[name |-> Str_Go, hint |-> Str_1x]}

\* store.updateTopic(id, { name, hint })
EditTopic ==
    /\ \E i \in 1..Len(topics), patch \in TopicPatches :
          /\ \E f \in DOMAIN patch : topics[i][f] # patch[f]
          /\ topics' = updateTopic(topics, topics[i].id, patch)
    /\ UNCHANGED <<now, entries, feedback, enabled, schedule, runHistory, lastRunAt,
                   maxPagesPerTopic, providerOk, searchConfigured, tasks, lastCall, collab>>
    /\ UNCHANGED ctxVars
    /\ UNCHANGED summarizing

\* resetState() of the self-learning store: enabled, schedule, maxPagesPerTopic
\* and lastRunAt go back to their defaults, topics and history are kept
\* (verboseOutput, which nothing reads, is left out)
ResetState ==
    /\ enabled' = FALSE
    /\ schedule' = "manual"
    /\ maxPagesPerTopic' = MaxPagesDefault
    /\ lastRunAt' = NoTime
    /\ lastCall' = Called("resetState")
    /\ UNCHANGED <<now, entries, feedback, topics, runHistory, providerOk,
                   searchConfigured, tasks, collab>>
    /\ UNCHANGED ctxVars
    /\ UNCHANGED summarizing

\* self-learning.vue: @click="store.deleteTopic(topic.id)"
DeleteTopic ==
    /\ \E i \in 1..Len(topics) : topics' = deleteTopic(topics, topics[i].id)
    /\ UNCHANGED <<now, entries, feedback, enabled, schedule, runHistory, lastRunAt,
                   maxPagesPerTopic, providerOk, searchConfigured, tasks, lastCall, collab>>
    /\ UNCHANGED ctxVars
    /\ UNCHANGED summarizing

\* the clock advances by a day
Tick ==
    /\ now + DailyH <= MaxNow
    /\ now' = now + DailyH
    /\ UNCHANGED memVars
    /\ UNCHANGED learnVars
    /\ UNCHANGED ctxVars
    /\ UNCHANGED summarizing

\* the page is closed and opened again: what localStorage holds stays, the
\* suspended tasks are gone and the components are created anew (const
\* feedback = ref(null))
Reload ==
    /\ tasks' = {}
    /\ feedback' = Null
    /\ lastCall' = NoCall
    /\ UNCHANGED <<now, entries, enabled, schedule, topics, runHistory, lastRunAt,
                   maxPagesPerTopic, providerOk, searchConfigured, collab>>
    /\ UNCHANGED ctxVars
    /\ summarizing' = {}

-----------------------------------------------------------------------------
(* Spec: run control.  Two topics are configured; the settings that the      *)
(* pre-flight checks read are switched at any time; every await of a run can *)
(* settle in each of its ways.                                               *)

PersistedTopics ==
    <<[id |-> 1, name |-> Str_AI, hint |-> <<>>, enabled |-> TRUE],
      [id |-> 2, name |-> Str_Go, hint |-> Str_1x, enabled |-> TRUE]>>

\* an installation with two topics and a daily schedule, self-learning switched off
Init ==
    /\ now = 1
    /\ entries = <<>>
    /\ feedback = Null
    /\ enabled = FALSE
    /\ schedule = "daily"
    /\ topics = PersistedTopics
    /\ runHistory = <<>>
    /\ lastRunAt = NoTime
    /\ maxPagesPerTopic = 2
    /\ providerOk = FALSE
    /\ searchConfigured = FALSE
    /\ tasks = {}
    /\ lastCall = NoCall
    /\ collab = AnyCollab
    /\ memEnabled = TRUE
    /\ maxInjectedEntries = MaxInjectedDefault
    /\ lastContext = NoContext
    /\ summarizing = {}

Next ==
    \/ ManualRun
    \/ CheckAndRunIfDue
    \/ ProviderReturn
    \/ SearchReturn
    \/ FetchReturn
    \/ DistillReturn
    \/ SetEnabled
    \/ SetProvider
    \/ SetSearchConfigured
    \/ ToggleTopic
    \/ Tick
    \/ Reload

Spec == Init /\ [][Next]_vars

-----------------------------------------------------------------------------
(* SpecMem: the memory store alone, under manual edits, session summaries,   *)
(* votes, decay and time; self-learning is as installed and the chat         *)
(* provider and model are set and cleared at any time.                       *)

LearnInit ==
    /\ enabled = FALSE
    /\ schedule = "manual"
    /\ topics = <<>>
    /\ runHistory = <<>>
    /\ lastRunAt = NoTime
    /\ maxPagesPerTopic = 2
    /\ providerOk = FALSE
    /\ searchConfigured = FALSE
    /\ tasks = {}
    /\ lastCall = NoCall
    /\ collab = AnyCollab
    /\ memEnabled = TRUE
    /\ maxInjectedEntries = MaxInjectedDefault
    /\ lastContext = NoContext
    /\ summarizing = {}

InitMem ==
    /\ now = OneWeekH
    /\ entries \in PersistedEntries
    /\ feedback = Null
    /\ LearnInit

MemAdd == MemAddOf(ManualContents, MaxMemEntries)

SummarizeGenerateReturn == SummarizeGenerateReturnOf(MaxMemEntries)

NextMem ==
    \/ MemAdd
    \/ SetProvider
    \/ SummarizeCall
    \/ SummarizeProviderReturn
    \/ SummarizeGenerateReturn
    \/ MemUpdate
    \/ MemResetState
    \/ MemDelete
    \/ MemClear
    \/ GiveFeedback
    \/ NewMessage
    \/ Decay
    \/ TickMem

SpecMem == InitMem /\ [][NextMem]_vars

\* SpecDecay: the confidence lifecycle of the entries that are there: votes,
\* decay and time, no manual edit
NextDecay ==
    \/ GiveFeedback
    \/ NewMessage
    \/ Decay
    \/ TickMem

SpecDecay == InitMem /\ [][NextDecay]_vars

-----------------------------------------------------------------------------
(* SpecDedup: CONSOLIDATE with stubbed collaborators.  Self-learning is set   *)
(* up with one topic; search, readPage and the model each give the same       *)
(* outcome at every call of a behaviour; runs follow one another and the user *)
(* may note the fact of the deduplication example by hand.                    *)

StubSearches == {SearchThrows, SearchResolves(<<>>), SearchResolves(<<[url |-> "https://a"]>>)}

StubPageLens == {0, 300}

StubArrays ==
    {<<Str_PyNew>>, <<Str_Tokio>>, <<Str_RustSafe>>,
     <<Str_RustSafe, Str_RustSafe>>,
     <<Str(<<" ", " ">>), Str(<<" ">>) \o Str_RustSafe>>}

StubCollabs ==
    {[search |-> {s}, fetch |-> {len}, llm |-> {a}] :
        s \in StubSearches, len \in StubPageLens,
        a \in {LlmFailed} \cup {LlmArray(x) : x \in StubArrays}}

MemAddPy == MemAddOf({Str_PyOld}, MaxEntries)

InitDedup ==
    /\ now = 1
    /\ entries = <<>>
    /\ feedback = Null
    /\ enabled = TRUE
    /\ schedule = "manual"
    /\ topics = <<PersistedTopics[1]>>
    /\ runHistory = <<>>
    /\ lastRunAt = NoTime
    /\ maxPagesPerTopic = 2
    /\ providerOk = TRUE
    /\ searchConfigured = TRUE
    /\ tasks = {}
    /\ lastCall = NoCall
    /\ collab \in StubCollabs
    /\ memEnabled = TRUE
    /\ maxInjectedEntries = MaxInjectedDefault
    /\ lastContext = NoContext
    /\ summarizing = {}

NextDedup ==
    \/ ManualRun
    \/ ProviderReturn
    \/ SearchReturn
    \/ FetchReturn
    \/ DistillReturn
    \/ MemAddPy

SpecDedup == InitDedup /\ [][NextDedup]_vars

-----------------------------------------------------------------------------
(* SpecLedger: the run ledger of the self-learning store alone, under any    *)
(* sequence of startRun, completeRun and failRun calls, from a history that  *)
(* earlier sessions left in localStorage.                                    *)

\* a run of an earlier session, completed before this one began
PastRun(id) ==
    [id |-> id, startedAt |-> 0, completedAt |-> 0, status |-> "done",
     topicsProcessed |-> <<Str_AI>>, insightsSaved |-> 0, error |-> Null]

\* n past runs, newest first
PastHistory(n) == [i \in 1..n |-> PastRun(n + 1 - i)]

PersistedHistories ==
    {PastHistory(0), PastHistory(HistoryLimit - 1), PastHistory(HistoryLimit)}

\* nanoid() never repeats: the identifiers issued up to the newest record of h
IssuedRunIds(h) ==
    IF h = <<>> THEN {}
    ELSE 1..(CHOOSE m \in UsedRunIds(h) : \A id \in UsedRunIds(h) : id <= m)

\* the records started in this session
StartedHere(h) == SelectSeq(h, LAMBDA r : r.startedAt > 0)

\* store.startRun(topicNames)
StoreStartRun ==
    /\ Len(StartedHere(runHistory)) < MaxStarts
    /\ LET id == FreshId(IssuedRunIds(runHistory))
       IN /\ runHistory' = startRun(runHistory, id, <<Str_AI>>, now)
          /\ lastCall' = Result("startRun", "direct", "returned", NoValue, Null, id)
    /\ UNCHANGED <<now, entries, feedback, enabled, schedule, topics, lastRunAt,
                   maxPagesPerTopic, providerOk, searchConfigured, tasks, collab>>
    /\ UNCHANGED ctxVars
    /\ UNCHANGED summarizing

\* store.completeRun(runId, insightsSaved) with the id of the latest run
StoreCompleteRun ==
    /\ runHistory # <<>>
    /\ \E n \in {2} :
          LET id == latestRun(runHistory).id
              r == completeRun(runHistory, lastRunAt, id, n, now)
          IN /\ runHistory' = r.runHistory
             /\ lastRunAt' = r.lastRunAt
             /\ lastCall' = Result("completeRun", "direct", "returned", NoValue, Null, id)
    /\ UNCHANGED <<now, entries, feedback, enabled, schedule, topics,
                   maxPagesPerTopic, providerOk, searchConfigured, tasks, collab>>
    /\ UNCHANGED ctxVars
    /\ UNCHANGED summarizing

\* store.failRun(runId, error) with the id of the latest run
StoreFailRun ==
    /\ runHistory # <<>>
    /\ \E m \in ThrownErrors :
          LET id == latestRun(runHistory).id
              r == failRun(runHistory, lastRunAt, id, m, now)
          IN /\ runHistory' = r.runHistory
             /\ lastRunAt' = r.lastRunAt
             /\ lastCall' = Result("failRun", "direct", "returned", NoValue, Null, id)
    /\ UNCHANGED <<now, entries, feedback, enabled, schedule, topics,
                   maxPagesPerTopic, providerOk, searchConfigured, tasks, collab>>
    /\ UNCHANGED ctxVars
    /\ UNCHANGED summarizing

InitLedger ==
    /\ now = 1
    /\ entries = <<>>
    /\ feedback = Null
    /\ enabled = TRUE
    /\ schedule = "manual"
    /\ topics = <<PersistedTopics[1]>>
    /\ runHistory \in PersistedHistories
    /\ lastRunAt = NoTime
    /\ maxPagesPerTopic = 2
    /\ providerOk = TRUE
    /\ searchConfigured = TRUE
    /\ tasks = {}
    /\ lastCall = NoCall
    /\ collab = AnyCollab
    /\ memEnabled = TRUE
    /\ maxInjectedEntries = MaxInjectedDefault
    /\ lastContext = NoContext
    /\ summarizing = {}

NextLedger ==
    \/ StoreStartRun
    \/ StoreCompleteRun
    \/ StoreFailRun
    \/ ResetState
    \/ Tick

SpecLedger == InitLedger /\ [][NextLedger]_vars

-----------------------------------------------------------------------------
(* SpecDue: isDue() called in a store whose schedule and lastRunAt are what  *)
(* earlier sessions left, at any hour up to MaxElapsed after the last run.    *)

Schedules == {"manual", "hourly", "daily", "weekly"}

\* a boolean result as the value of a call
BoolValue(b) == IF b THEN 1 ELSE 0

\* store.isDue()
IsDueCall ==
    /\ lastCall' = Result("isDue", "direct", "returned",
                          BoolValue(isDue(schedule, lastRunAt, now)), Null, NoRun)
    /\ UNCHANGED <<now, entries, feedback, enabled, schedule, topics, runHistory, lastRunAt,
                   maxPagesPerTopic, providerOk, searchConfigured, tasks, collab>>
    /\ UNCHANGED ctxVars
    /\ UNCHANGED summarizing

InitDue ==
    /\ schedule \in Schedules
    /\ lastRunAt \in {NoTime, 1, 2}
    /\ now \in Max(1, lastRunAt)..(Max(1, lastRunAt) + MaxElapsed)
    /\ entries = <<>>
    /\ feedback = Null
    /\ enabled = TRUE
    /\ topics = PersistedTopics
    /\ runHistory = <<>>
    /\ maxPagesPerTopic = 2
    /\ providerOk = TRUE
    /\ searchConfigured = TRUE
    /\ tasks = {}
    /\ lastCall = NoCall
    /\ collab = AnyCollab
    /\ memEnabled = TRUE
    /\ maxInjectedEntries = MaxInjectedDefault
    /\ lastContext = NoContext
    /\ summarizing = {}

NextDue ==
    \/ IsDueCall
    \/ SetSchedule
    \/ ResetState

SpecDue == InitDue /\ [][NextDue]_vars

-----------------------------------------------------------------------------
(* SpecContext: context reads of a memory store as earlier sessions left it, *)
(* under any setting of the module's switch and of the injection budget.     *)

\* the confidence of an entry made by hand after two votes of the same value
VotedTwice(value) ==
    LET delta == IF value = "up" THEN Conf(BoostDefault) ELSE FNeg(Conf(BoostDefault))
        once == FMin(Conf(1000), FAdd(Conf(SeedManual), delta))
    IN FMin(Conf(1000), FAdd(once, delta))

\* an entry made by hand that two votes of this value, the second at time upd,
\* brought from 0.8 to 0.9 (up) or to 0.7 (down)
StoredEntry(id, value, upd) ==
    [id |-> id, content |-> Str_RustSafe, tags |-> <<>>, source |-> "manual",
     confidence |-> VotedTwice(value), useCount |-> 2, createdAt |-> 0, updatedAt |-> upd]

\* A and B differ in updatedAt only, B and D in id only, C has less confidence
EntryA == StoredEntry(1, "up", 1)
EntryB == StoredEntry(2, "up", 2)
EntryC == StoredEntry(3, "down", 1)
EntryD == StoredEntry(4, "up", 2)

EntryPool == {EntryA, EntryB, EntryC, EntryD}

\* the stores of up to MaxStored of these entries, in every order of insertion
PersistedStores ==
    {es \in UNION {[1..n -> EntryPool] : n \in 0..MaxStored} :
        \A i, j \in 1..Len(es) : i # j => es[i] # es[j]}

\* createLongTermMemoryContext(): store.getEntriesForContext()
ContextRead ==
    /\ lastContext' = Context(getEntriesForContext(memEnabled, maxInjectedEntries, entries),
                              {t.run : t \in tasks})
    /\ UNCHANGED <<now, entries, feedback, memEnabled, maxInjectedEntries>>
    /\ UNCHANGED learnVars
    /\ UNCHANGED summarizing

\* the switch of the long-term memory module
SetMemEnabled ==
    /\ memEnabled' = ~memEnabled
    /\ lastContext' = NoContext
    /\ UNCHANGED <<now, entries, feedback, maxInjectedEntries>>
    /\ UNCHANGED learnVars
    /\ UNCHANGED summarizing

\* memory-long-term.vue: v-model="maxInjectedEntries"
SetMaxInjected ==
    /\ \E n \in {0, 1, 2, MaxInjectedDefault} :
          /\ n # maxInjectedEntries
          /\ maxInjectedEntries' = n
    /\ lastContext' = NoContext
    /\ UNCHANGED <<now, entries, feedback, memEnabled>>
    /\ UNCHANGED learnVars
    /\ UNCHANGED summarizing

InitContext ==
    /\ now = 3
    /\ entries \in PersistedStores
    /\ feedback = Null
    /\ memEnabled = TRUE
    /\ maxInjectedEntries = MaxInjectedDefault
    /\ lastContext = NoContext
    /\ summarizing = {}
    /\ enabled = FALSE
    /\ schedule = "manual"
    /\ topics = <<>>
    /\ runHistory = <<>>
    /\ lastRunAt = NoTime
    /\ maxPagesPerTopic = 2
    /\ providerOk = FALSE
    /\ searchConfigured = FALSE
    /\ tasks = {}
    /\ lastCall = NoCall
    /\ collab = AnyCollab

NextContext ==
    \/ ContextRead
    \/ SetMemEnabled
    \/ SetMaxInjected
    \/ MemResetState

SpecContext == InitContext /\ [][NextContext]_vars

-----------------------------------------------------------------------------
(* SpecRead: runs over two topics on a store that starts empty, while the     *)
(* chat builds its context (a context read) at any moment.                    *)

\* the collaborators: the model finds one fact or another in the pages
ReadCollab ==
    [search |-> StubSearches,
     fetch |-> StubPageLens,
     llm |-> {LlmFailed, LlmArray(<<Str_RustSafe>>), LlmArray(<<Str_Tokio>>)}]

InitRead ==
    /\ now = 1
    /\ entries = <<>>
    /\ feedback = Null
    /\ enabled = TRUE
    /\ schedule = "manual"
    /\ topics = PersistedTopics
    /\ runHistory = <<>>
    /\ lastRunAt = NoTime
    /\ maxPagesPerTopic = 2
    /\ providerOk = TRUE
    /\ searchConfigured = TRUE
    /\ tasks = {}
    /\ lastCall = NoCall
    /\ collab = ReadCollab
    /\ memEnabled = TRUE
    /\ maxInjectedEntries = MaxInjectedDefault
    /\ lastContext = NoContext
    /\ summarizing = {}

NextRead ==
    \/ ManualRun
    \/ ProviderReturn
    \/ SearchReturn
    \/ FetchReturn
    \/ DistillReturn
    \/ ContextRead

SpecRead == InitRead /\ [][NextRead]_vars

-----------------------------------------------------------------------------
(* SpecJudge: runs over two topics whose search gives the same answer at     *)
(* every call of a behaviour, some of it with empty URLs and with more       *)
(* results than were asked for; the page budget is changed at any time.      *)

Url(u) == [url |-> u]

\* what the search provider answers
ProviderAnswers ==
    {<<>>,
     <<Url("https://a")>>,
     <<Url(""), Url("https://a")>>,
     <<Url("https://a"), Url(""), Url("https://b"), Url("https://c"), Url("https://d")>>}

JudgeCollabs ==
    {[search |-> {SearchResolves(a)}, fetch |-> {0, 300}, llm |-> {LlmArray(<<Str_RustSafe>>)}] :
        a \in ProviderAnswers}

InitJudge ==
    /\ now = 1
    /\ entries = <<>>
    /\ feedback = Null
    /\ enabled = TRUE
    /\ schedule = "manual"
    /\ topics = PersistedTopics
    /\ runHistory = <<>>
    /\ lastRunAt = NoTime
    /\ maxPagesPerTopic = 2
    /\ providerOk = TRUE
    /\ searchConfigured = TRUE
    /\ tasks = {}
    /\ lastCall = NoCall
    /\ collab \in JudgeCollabs
    /\ memEnabled = TRUE
    /\ maxInjectedEntries = MaxInjectedDefault
    /\ lastContext = NoContext
    /\ summarizing = {}

NextJudge ==
    \/ ManualRun
    \/ ProviderReturn
    \/ SearchReturn
    \/ FetchReturn
    \/ DistillReturn
    \/ SetMaxPages

SpecJudge == InitJudge /\ [][NextJudge]_vars

-----------------------------------------------------------------------------
(* SpecPages: runs over two topics whose search gives two URLs; every page   *)
(* read in a behaviour has the same length, just below, at or just above the *)
(* threshold of DISTILL.                                                      *)

\* content.trim().length of the pages readPage returns
PageLens == {0, 199, 200, 201}

PagesCollabs ==
    {[search |-> {SearchResolves(<<Url("https://a"), Url("https://b")>>)},
      fetch |-> {len},
      llm |-> {LlmFailed, LlmArray(<<Str_RustSafe>>)}] : len \in PageLens}

InitPages ==
    /\ now = 1
    /\ entries = <<>>
    /\ feedback = Null
    /\ enabled = TRUE
    /\ schedule = "manual"
    /\ topics = PersistedTopics
    /\ runHistory = <<>>
    /\ lastRunAt = NoTime
    /\ maxPagesPerTopic = 2
    /\ providerOk = TRUE
    /\ searchConfigured = TRUE
    /\ tasks = {}
    /\ lastCall = NoCall
    /\ collab \in PagesCollabs
    /\ memEnabled = TRUE
    /\ maxInjectedEntries = MaxInjectedDefault
    /\ lastContext = NoContext
    /\ summarizing = {}

NextPages ==
    \/ ManualRun
    \/ ProviderReturn
    \/ SearchReturn
    \/ FetchReturn
    \/ DistillReturn

SpecPages == InitPages /\ [][NextPages]_vars

-----------------------------------------------------------------------------
(* SpecLive: runs started by hand and by the schedule in a process that is   *)
(* not shut down, every awaited call settling in the end: the promise of     *)
(* getProviderInstance, of search, of readPage (ofetch has a timeout of 20   *)
(* seconds) and of distillInsights is resolved or rejected, and the          *)
(* continuation of a settled promise is run by the event loop.               *)

InitLive ==
    /\ now = 1
    /\ entries = <<>>
    /\ feedback = Null
    /\ enabled = TRUE
    /\ schedule = "daily"
    /\ topics = PersistedTopics
    /\ runHistory = <<>>
    /\ lastRunAt = NoTime
    /\ maxPagesPerTopic = 2
    /\ providerOk = TRUE
    /\ searchConfigured = TRUE
    /\ tasks = {}
    /\ lastCall = NoCall
    /\ collab = AnyCollab
    /\ memEnabled = TRUE
    /\ maxInjectedEntries = MaxInjectedDefault
    /\ lastContext = NoContext
    /\ summarizing = {}

NextLive ==
    \/ ManualRun
    \/ CheckAndRunIfDue
    \/ ProviderReturn
    \/ SearchReturn
    \/ FetchReturn
    \/ DistillReturn
    \/ SetEnabled
    \/ Tick

SpecLive ==
    /\ InitLive
    /\ [][NextLive]_vars
    /\ WF_vars(ProviderReturn)
    /\ WF_vars(SearchReturn)
    /\ WF_vars(FetchReturn)
    /\ WF_vars(DistillReturn)

-----------------------------------------------------------------------------
(* SpecReload: runs started by hand and by the schedule in a page that can   *)
(* be closed in mid-run and opened again, the switch and the provider being  *)
(* changed at any time.                                                      *)

\* search finds one page or fails, the page is long enough, the model finds nothing
ReloadCollab ==
    [search |-> {SearchThrows, SearchResolves(<<Url("https://a")>>)},
     fetch |-> {300},
     llm |-> {LlmFailed}]

InitReload ==
    /\ now = 1
    /\ entries = <<>>
    /\ feedback = Null
    /\ enabled = TRUE
    /\ schedule = "daily"
    /\ topics = PersistedTopics
    /\ runHistory = <<>>
    /\ lastRunAt = NoTime
    /\ maxPagesPerTopic = 2
    /\ providerOk = TRUE
    /\ searchConfigured = TRUE
    /\ tasks = {}
    /\ lastCall = NoCall
    /\ collab = ReloadCollab
    /\ memEnabled = TRUE
    /\ maxInjectedEntries = MaxInjectedDefault
    /\ lastContext = NoContext
    /\ summarizing = {}

NextReload ==
    \/ ManualRun
    \/ CheckAndRunIfDue
    \/ ProviderReturn
    \/ SearchReturn
    \/ FetchReturn
    \/ DistillReturn
    \/ SetEnabled
    \/ SetProvider
    \/ ToggleTopic
    \/ Tick
    \/ Reload

SpecReload == InitReload /\ [][NextReload]_vars

-----------------------------------------------------------------------------
(* SpecTopics: a run over the topics of the settings page while the user     *)
(* adds, switches and deletes topics; an earlier session left one finished   *)
(* run in the ledger.                                                        *)

\* search finds one page or fails, the page is long enough, the model finds one fact
TopicsCollab ==
    [search |-> {SearchThrows, SearchResolves(<<>>), SearchResolves(<<Url("https://a")>>)},
     fetch |-> {300},
     llm |-> {LlmArray(<<Str_RustSafe>>)}]

InitTopics ==
    /\ now = 1
    /\ entries = <<>>
    /\ feedback = Null
    /\ enabled = TRUE
    /\ schedule = "manual"
    /\ topics = PersistedTopics
    /\ runHistory = PastHistory(1)
    /\ lastRunAt = 0
    /\ maxPagesPerTopic = 2
    /\ providerOk = TRUE
    /\ searchConfigured = TRUE
    /\ tasks = {}
    /\ lastCall = NoCall
    /\ collab = TopicsCollab
    /\ memEnabled = TRUE
    /\ maxInjectedEntries = MaxInjectedDefault
    /\ lastContext = NoContext
    /\ summarizing = {}

NextTopics ==
    \/ ManualRun
    \/ ProviderReturn
    \/ SearchReturn
    \/ FetchReturn
    \/ DistillReturn
    \/ AddTopic
    \/ ToggleTopic
    \/ EditTopic
    \/ DeleteTopic

SpecTopics == InitTopics /\ [][NextTopics]_vars

-----------------------------------------------------------------------------
(* SpecGuard: calls of runLearningLoop, by hand and by the schedule, while    *)
(* the switch, the provider, the web search and the topics are changed at    *)
(* any time; no search finds anything.                                       *)

GuardCollab ==
    [search |-> {SearchThrows, SearchResolves(<<>>)}, fetch |-> {0}, llm |-> {LlmFailed}]

InitGuard ==
    /\ now = 1
    /\ entries = <<>>
    /\ feedback = Null
    /\ enabled = FALSE
    /\ schedule = "daily"
    /\ topics = PersistedTopics
    /\ runHistory = <<>>
    /\ lastRunAt = NoTime
    /\ maxPagesPerTopic = 2
    /\ providerOk = FALSE
    /\ searchConfigured = FALSE
    /\ tasks = {}
    /\ lastCall = NoCall
    /\ collab = GuardCollab
    /\ memEnabled = TRUE
    /\ maxInjectedEntries = MaxInjectedDefault
    /\ lastContext = NoContext
    /\ summarizing = {}

NextGuard ==
    \/ ManualRun
    \/ CheckAndRunIfDue
    \/ ProviderReturn
    \/ SearchReturn
    \/ SetEnabled
    \/ SetSchedule
    \/ SetProvider
    \/ SetSearchConfigured
    \/ ToggleTopic

SpecGuard == InitGuard /\ [][NextGuard]_vars

-----------------------------------------------------------------------------
(* SpecInterleave: runs over two topics while the user edits the memory      *)
(* store, votes on a response, a chat session is summarised into the store   *)
(* and decayConfidence is called, at any moment.                             *)
(* The model distills the very fact the user may note by hand; earlier       *)
(* sessions left finished runs in the ledger, with room for one more.        *)

InterleaveCollab ==
    [search |-> {SearchResolves(<<Url("https://a")>>)},
     fetch |-> {300},
     llm |-> {LlmArray(<<Str_RustSafe>>)}]

MemAddRust == MemAddOf({Str_RustSafe}, MaxEntries)

SummarizeGenerateReturnDuringRun == SummarizeGenerateReturnOf(MaxEntries)

InitInterleave ==
    /\ now = 1
    /\ entries = <<>>
    /\ feedback = Null
    /\ enabled = TRUE
    /\ schedule = "manual"
    /\ topics = PersistedTopics
    /\ runHistory = PastHistory(MaxRuns - 1)
    /\ lastRunAt = 0
    /\ maxPagesPerTopic = 2
    /\ providerOk = TRUE
    /\ searchConfigured = TRUE
    /\ tasks = {}
    /\ lastCall = NoCall
    /\ collab = InterleaveCollab
    /\ memEnabled = TRUE
    /\ maxInjectedEntries = MaxInjectedDefault
    /\ lastContext = NoContext
    /\ summarizing = {}

NextInterleave ==
    \/ ManualRun
    \/ ProviderReturn
    \/ SearchReturn
    \/ FetchReturn
    \/ DistillReturn
    \/ MemAddRust
    \/ SummarizeCall
    \/ SummarizeProviderReturn
    \/ SummarizeGenerateReturnDuringRun
    \/ MemUpdate
    \/ MemDelete
    \/ MemClear
    \/ GiveFeedback
    \/ Decay

SpecInterleave == InitInterleave /\ [][NextInterleave]_vars

-----------------------------------------------------------------------------
(* Claims on run control, checked under Spec *)

HasRun(h, id) == \E i \in 1..Len(h) : h[i].id = id
RunOf(h, id) == h[CHOOSE i \in 1..Len(h) : h[i].id = id]

\* a step that is an invocation of runLearningLoop, directly or by the schedule
CallOfRunLearningLoop ==
    \/ ManualRun
    \/ /\ CheckAndRunIfDue
       /\ isDue(schedule, lastRunAt, now)
       /\ configured(enabled, topics)

\* a step in which the run of task t settles with an exception
Throws(t) ==
    /\ t \notin tasks'
    /\ lastCall' = Result("runLearningLoop", t.caller, "threw", NoValue, lastCall'.error, t.run)

\* a step in which the run of task t returns
Returns(t) ==
    /\ t \notin tasks'
    /\ lastCall' = Result("runLearningLoop", t.caller, "returned", lastCall'.value, Null, t.run)

PreflightMessages ==
    {"No active LLM provider configured", "Web search is not configured - enable it in Modules -> Web Search",
     "No learning topics configured"}

\* C1: single flight. In every reachable state at most one ledger record is
\* 'running' and at most one run task is executing, and the executing task's
\* record is the newest one and is the running one.
C1_SingleFlight ==
    /\ Cardinality({i \in 1..Len(runHistory) : runHistory[i].status = "running"}) <= 1
    /\ Cardinality(tasks) <= 1
    /\ \A t \in tasks : isRunning(runHistory) /\ latestRun(runHistory).id = t.run

\* a scheduled invocation found a run in flight and returned 0
C1_Witness ==
    /\ tasks # {}
    /\ lastCall = Result("runLearningLoop", "schedule", "returned", 0, Null, NoRun)

\* C2: an invocation of runLearningLoop while the newest record is 'running'
\* returns 0, does not throw, and leaves the run history, lastRunAt and the
\* memory entries as they were.
C2_NoOpWhileRunning ==
    [][(isRunning(runHistory) /\ CallOfRunLearningLoop)
          => /\ lastCall'.result = "returned"
             /\ lastCall'.value = 0
             /\ UNCHANGED <<runHistory, lastRunAt, entries, tasks>>]_vars

\* a manual invocation returned 0 while a run was in flight
C2_Witness ==
    /\ isRunning(runHistory)
    /\ tasks # {}
    /\ lastCall = Result("runLearningLoop", "manual", "returned", 0, Null, NoRun)

\* C6: an invocation while enabled and not running, with no provider or model,
\* or web search not configured, or no enabled topic, throws before any record
\* is created: run history, lastRunAt and memory entries are unchanged and no
\* task exists that could issue a search, a fetch or a text generation.
C6_PreflightThrows ==
    [][(/\ CallOfRunLearningLoop
        /\ enabled
        /\ ~isRunning(runHistory)
        /\ \/ ~providerOk
           \/ ~searchConfigured
           \/ \A i \in 1..Len(topics) : ~topics[i].enabled)
          => /\ lastCall'.result = "threw"
             /\ lastCall'.error \in PreflightMessages
             /\ lastCall'.run = NoRun
             /\ UNCHANGED <<runHistory, lastRunAt, entries, tasks>>]_vars

\* the deepest pre-flight check threw: provider and search fine, no topic enabled
C6_Witness ==
    /\ lastCall.result = "threw"
    /\ lastCall.run = NoRun
    /\ lastCall.error = "No learning topics configured"
    /\ tasks = {}

\* C7 as stated: runLearningLoop throws only for the pre-flight conditions, that
\* is only when no run record was created.
C7_ThrowsOnlyPreflight ==
    lastCall.result = "threw" => lastCall.run = NoRun

\* C7 amended: runLearningLoop throws for a pre-flight condition, with no record
\* created, or re-throws an exception raised after the record was created, and
\* then the record is 'error' with that exception's message; such an exception
\* comes from the provider instantiation or from a search, never from a page
\* fetch or from the distillation.
C7_ThrowsPreflightOrRecorded ==
    /\ [](lastCall.result = "threw" =>
            IF lastCall.run = NoRun
            THEN lastCall.error \in PreflightMessages
            ELSE /\ HasRun(runHistory, lastCall.run)
                 /\ RunOf(runHistory, lastCall.run).status = "error"
                 /\ RunOf(runHistory, lastCall.run).error = lastCall.error)
    /\ [][\A t \in tasks : Throws(t) => t.pc \in {"provider", "search"}]_vars

\* a run settled with an exception thrown after startRun: the caller got it
\* and the run is recorded as 'error' with its message
C7_Witness ==
    /\ lastCall.result = "threw"
    /\ lastCall.run # NoRun
    /\ lastCall.caller = "manual"
    /\ RunOf(runHistory, lastCall.run).status = "error"

\* C8: when an exception occurs after the record was created, the record goes
\* from 'running' to 'error' with completedAt stamped and the message stored,
\* and lastRunAt keeps its value: no step changes lastRunAt except a run's
\* successful completion.
C8_FailureRecorded ==
    [][/\ \A t \in tasks : Throws(t) =>
             /\ RunOf(runHistory, t.run).status = "running"
             /\ RunOf(runHistory', t.run).status = "error"
             /\ RunOf(runHistory', t.run).completedAt = now
             /\ RunOf(runHistory', t.run).error = lastCall'.error
             /\ lastRunAt' = lastRunAt
       /\ lastRunAt' # lastRunAt => \E t \in tasks : Returns(t)]_vars

\* a run failed a day after an earlier run had completed: lastRunAt is still
\* the earlier completion
C8_Witness ==
    /\ lastCall.result = "threw"
    /\ lastCall.run # NoRun
    /\ RunOf(runHistory, lastCall.run).status = "error"
    /\ lastRunAt # NoTime
    /\ RunOf(runHistory, lastCall.run).completedAt > lastRunAt

\* C9: when the topic loop finishes without an exception the record goes from
\* 'running' to 'done' with completedAt stamped and the count stored, and
\* lastRunAt becomes exactly that completedAt.
C9_CompletionRecorded ==
    [][\A t \in tasks : Returns(t) =>
          /\ RunOf(runHistory, t.run).status = "running"
          /\ RunOf(runHistory', t.run).status = "done"
          /\ RunOf(runHistory', t.run).completedAt = now
          /\ RunOf(runHistory', t.run).insightsSaved = lastCall'.value
          /\ lastRunAt' = RunOf(runHistory', t.run).completedAt]_vars

\* a second run completed a day after the first without saving any insight
C9_Witness ==
    /\ lastCall.result = "returned"
    /\ lastCall.run # NoRun
    /\ lastCall.value = 0
    /\ RunOf(runHistory, lastCall.run).status = "done"
    /\ RunOf(runHistory, lastCall.run).insightsSaved = 0
    /\ Len(runHistory) = 2
    /\ lastRunAt = RunOf(runHistory, lastCall.run).completedAt
    /\ lastRunAt > runHistory[2].completedAt

\* C10 as stated: a failure of the search, of a page fetch or of the
\* distillation while a topic is processed does not abort the run: no step of a
\* task inside the topic loop turns its record into 'error'.
C10_FailuresArePerTopic ==
    [][\A t \in tasks :
          t.pc \in {"search", "fetch", "distill"} =>
             RunOf(runHistory', t.run).status # "error"]_vars

\* C13 as stated: checkAndRunIfDue never passes an error on to its caller, and
\* every error it swallows from the runLearningLoop call it made is visible in
\* the run ledger as a record with status 'error' that carries the message of
\* that error.  (A call with caller "schedule" that threw is an error that
\* .catch(console.warn) swallowed.)
C13_SwallowedErrorsRecorded ==
    (lastCall.caller = "schedule" /\ lastCall.result = "threw") =>
        /\ HasRun(runHistory, lastCall.run)
        /\ RunOf(runHistory, lastCall.run).status = "error"
        /\ RunOf(runHistory, lastCall.run).error = lastCall.error

\* a step that is a call of checkAndRunIfDue (a settlement takes a task away)
ScheduleCallStep ==
    /\ lastCall'.caller = "schedule"
    /\ lastCall' # lastCall
    /\ tasks \subseteq tasks'

\* C19: prompt retry after failure.  When a run started by the schedule ends in
\* 'error', isDue() is still true right afterwards, and the next
\* checkAndRunIfDue, the pipeline being still configured, starts a new run;
\* after a run that ends 'done', isDue() is false until a full interval (24
\* hours of the daily schedule) has elapsed since its completion.
C19_PromptRetry ==
    /\ [][\A t \in tasks : (t.caller = "schedule" /\ Throws(t)) =>
             isDue(schedule', lastRunAt', now')]_vars
    /\ [][(/\ lastCall.caller = "schedule"
           /\ lastCall.result = "threw"
           /\ lastCall.run # NoRun
           /\ enabled
           /\ preflightError(providerOk, searchConfigured, topics) = Null
           /\ ScheduleCallStep)
             => /\ lastCall'.result = "pending"
                /\ Len(runHistory') = Len(runHistory) + 1
                /\ runHistory'[1].status = "running"
                /\ runHistory'[1].id = lastCall'.run]_vars
    /\ [][\A t \in tasks : Returns(t) => ~isDue(schedule', lastRunAt', now')]_vars
    /\ []((/\ runHistory # <<>>
           /\ runHistory[1].status = "done"
           /\ now - runHistory[1].completedAt < 24)
             => ~isDue(schedule, lastRunAt, now))

\* a run failed, the baseline was left alone, and the schedule's next check
\* started a new run at once
C19_Witness ==
    /\ Len(runHistory) = 2
    /\ runHistory[2].status = "error"
    /\ runHistory[1].status = "running"
    /\ runHistory[1].startedAt = runHistory[2].completedAt
    /\ lastRunAt = NoTime
    /\ lastCall = Result("runLearningLoop", "schedule", "pending", NoValue, Null,
                         runHistory[1].id)

\* C18: a run record is immutable once terminal.  Once its status is 'done'
\* or 'error' no later step (a further run that starts, completes or fails, a
\* reload, a change of the settings) changes its status, completedAt,
\* insightsSaved, error or topicsProcessed for as long as the ledger holds it,
\* and the only status transitions of a record are running -> done and
\* running -> error.
C18_TerminalImmutable ==
    [][\A i \in 1..Len(runHistory) : \A j \in 1..Len(runHistory') :
          runHistory'[j].id = runHistory[i].id =>
             /\ runHistory[i].status \in {"done", "error"} => runHistory'[j] = runHistory[i]
             /\ runHistory'[j].status # runHistory[i].status =>
                   /\ runHistory[i].status = "running"
                   /\ runHistory'[j].status \in {"done", "error"}]_vars

\* a run failed and a later run has completed: the older record still reads
\* 'error' with its message, no insights and the time of its failure
C18_Witness ==
    /\ Len(runHistory) = 2
    /\ runHistory[1].status = "done"
    /\ runHistory[2].status = "error"
    /\ runHistory[2].error \in ThrownErrors
    /\ runHistory[2].insightsSaved = 0
    /\ runHistory[2].completedAt <= runHistory[1].startedAt
    /\ lastCall.op = "runLearningLoop"
    /\ lastCall.result = "returned"
    /\ lastCall.run = runHistory[1].id

-----------------------------------------------------------------------------
(* Claims on CONSOLIDATE, checked under SpecDedup *)

\* a step in which the await of distillInsights of task t settles
DistillSettles(t) ==
    /\ t.pc = "distill"
    /\ t \notin tasks'
    /\ \/ Returns(t)
       \/ \E t2 \in tasks' : t2.run = t.run /\ t2.i = t.i + 1

\* C4 as stated: two runs one after the other on a store that started empty,
\* with collaborators that give the same search results, pages and insights in
\* both, leave exactly the entries of the first run: the second run records
\* insightsSaved = 0.
C4_Idempotent ==
    (/\ Len(runHistory) = 2
     /\ runHistory[1].status = "done"
     /\ runHistory[2].status = "done"
     /\ \A i \in 1..Len(entries) : entries[i].source = "self-learning")
       => /\ runHistory[1].insightsSaved = 0
          /\ Len(entries) = runHistory[2].insightsSaved

\* the rule of the claim: the candidate's significant words are its lower-cased
\* whitespace-separated tokens longer than 4 characters; it is a duplicate when
\* some existing content contains at least 60% of them
ClaimedSignificant(insight) ==
    SelectSeq(SplitWs(ToLowerCase(insight)), LAMBDA w : Len(w) > SignificantLen)

ClaimedDuplicate(insight, es) ==
    LET sig == ClaimedSignificant(insight)
    IN /\ sig # <<>>
       /\ \E i \in 1..Len(es) :
             DupDen * Len(SelectSeq(sig, LAMBDA w : Includes(ToLowerCase(es[i].content), w)))
                >= DupNum * Len(sig)

\* C5 as stated: CONSOLIDATE stores exactly the candidates that the rule of the
\* claim does not reject (matched significant words over all significant words
\* at least 60%), so 'Python 3.13 removed GIL for free-threaded mode' is not
\* stored when 'Python 3.13 removes the GIL in free-threaded builds' is.
C5_DedupRule ==
    [][\A t \in tasks, a \in collab.llm :
          (DistillSettles(t) /\ t.pages # <<>> /\ a.ok) =>
             [i \in 1..(Len(entries') - Len(entries)) |-> entries'[Len(entries) + i].content]
                = SelectSeq(distillParse(a.items),
                            LAMBDA c : ~ClaimedDuplicate(c, entries))]_vars

\* C24: dedupe returns a subsequence of its input, in input order, each
\* candidate decided only against the entries the store holds when dedupe
\* starts; candidates are not compared with each other, so two identical
\* candidates of one batch that match no stored entry are both stored.
C24_DedupeSnapshot ==
    [][\A t \in tasks, a \in collab.llm :
          (DistillSettles(t) /\ t.pages # <<>> /\ a.ok) =>
             [i \in 1..(Len(entries') - Len(entries)) |-> entries'[Len(entries) + i].content]
                = SelectSeq(distillParse(a.items),
                            LAMBDA c : \A k \in 1..Len(entries) :
                                          ~IsDuplicateOf(c, ToLowerCase(entries[k].content)))]_vars

\* the model answered the same fact twice on an empty store: both are stored
C24_Witness ==
    /\ \A a \in collab.llm : a.ok /\ a.items = <<Str_RustSafe, Str_RustSafe>>
    /\ Len(runHistory) = 1
    /\ runHistory[1].status = "done"
    /\ runHistory[1].insightsSaved = 2
    /\ Len(entries) = 2
    /\ entries[1].content = Str_RustSafe
    /\ entries[2].content = Str_RustSafe
    /\ entries[1].source = "self-learning"
    /\ entries[2].source = "self-learning"

\* the insightsSaved of the records of h, added up
RECURSIVE SumSaved(_)
SumSaved(h) == IF h = <<>> THEN 0 ELSE Head(h).insightsSaved + SumSaved(Tail(h))

\* the entries of es that a run saved
SelfLearned(es) == SelectSeq(es, LAMBDA e : e.source = "self-learning")

\* C17: every entry a run adds has source 'self-learning', confidence 0.6,
\* useCount 0 and the tags [topicName, 'self-learning'] of the topic that
\* produced it; a run that ends 'done' records as insightsSaved, and returns,
\* exactly the number of entries it added.
C17_ConsolidateOutput ==
    /\ [][\A t \in tasks : DistillSettles(t) =>
             /\ Len(entries') >= Len(entries)
             /\ SubSeq(entries', 1, Len(entries)) = entries
             /\ \A k \in (Len(entries) + 1)..Len(entries') :
                   /\ entries'[k].source = "self-learning"
                   /\ entries'[k].confidence = FDivInt(6, 10)
                   /\ entries'[k].useCount = 0
                   /\ entries'[k].tags = <<t.topicsToLearn[t.i].name,
                                           Str(<<"s","e","l","f","-","l","e","a","r","n","i","n","g">>)>>
             /\ Returns(t) =>
                   /\ RunOf(runHistory', t.run).status = "done"
                   /\ RunOf(runHistory', t.run).insightsSaved = Len(entries') - Len(entries)
                   /\ lastCall'.value = Len(entries') - Len(entries)]_vars
    /\ []((tasks = {} /\ \A i \in 1..Len(runHistory) : runHistory[i].status # "running")
             => Len(SelfLearned(entries)) = SumSaved(runHistory))

\* one topic, one search result, a page of 300 characters and one distilled
\* insight on an empty store: the run is 'done' with insightsSaved = 1 and the
\* store holds exactly the one new entry
C17_Witness ==
    /\ collab.fetch = {300}
    /\ \A a \in collab.llm : a.ok /\ Len(a.items) = 1
    /\ Len(runHistory) = 1
    /\ runHistory[1].status = "done"
    /\ runHistory[1].insightsSaved = 1
    /\ lastCall.result = "returned"
    /\ lastCall.value = 1
    /\ Len(entries) = 1
    /\ entries[1].source = "self-learning"
    /\ entries[1].confidence = Conf(SeedSelfLearning)
    /\ entries[1].tags = <<topics[1].name, Str_SelfLearning>>

-----------------------------------------------------------------------------
(* Claims on the memory store *)

\* C3: every memory entry's confidence stays within [0, 1] after any sequence of
\* addEntry, boostConfidence (any delta callers pass, the down-vote's -0.05
\* included) and decayConfidence.
C3_ConfidenceInUnitInterval ==
    \A i \in 1..Len(entries) :
        /\ ~FLess(entries[i].confidence, FZero)
        /\ ~FLess(FDivInt(1, 1), entries[i].confidence)

\* the decay of the claim at its default arguments, in the numbers of the
\* program: 0.02 is 2 / 100, 0.05 is 5 / 100, a week is 168 hours
ClaimedDecay(es, t) ==
    LET Claimed(e) ==
            LET ageWeeks == FDivInt(t - e.updatedAt, 168)
                result == FSub(e.confidence, FMul(FDivInt(2, 100), ageWeeks))
            IN [e EXCEPT !.confidence = IF FLess(result, FZero) THEN FZero ELSE result]
        decayed == [i \in 1..Len(es) |-> Claimed(es[i])]
    IN SelectSeq(decayed, LAMBDA e : ~FLess(e.confidence, FDivInt(5, 100)))

\* C16: decayConfidence(0.02, 0.05) sets every confidence to
\* max(0, confidence - 0.02 * ageWeeks), ageWeeks = (now - updatedAt) / 1 week,
\* and then removes exactly the entries whose new confidence is strictly below
\* 0.05: an entry that ends at 0.05 stays.
C16_DecayRule ==
    [][lastCall'.op = "decayConfidence" => entries' = ClaimedDecay(entries, now)]_vars

\* decayConfidence ran on an entry of confidence 0.05 updated just now, and the
\* entry is still there with 0.05
C16_Witness ==
    /\ lastCall.op = "decayConfidence"
    /\ \E i \in 1..Len(entries) :
          /\ entries[i].confidence = FDivInt(5, 100)
          /\ entries[i].updatedAt = now

-----------------------------------------------------------------------------
(* Claims on the run ledger, checked under SpecLedger *)

\* a step that is a call of startRun
StartRunStep ==
    /\ lastCall'.op = "startRun"
    /\ lastCall'.run \notin UsedRunIds(runHistory)

\* C11: the run history never holds more than 20 records and is ordered newest
\* first; startRun puts the new 'running' record at index 0 in front of the
\* records that were there, and when that makes a 21st record the oldest one
\* (the last) is the one dropped.
C11_LedgerBound ==
    /\ [](/\ Len(runHistory) <= HistoryLimit
          /\ \A i \in 1..(Len(runHistory) - 1) :
                runHistory[i].startedAt >= runHistory[i + 1].startedAt)
    /\ [][StartRunStep =>
             /\ runHistory'[1] = NewRun(lastCall'.run, runHistory'[1].topicsProcessed, now)
             /\ IF Len(runHistory) < HistoryLimit
                THEN runHistory' = <<runHistory'[1]>> \o runHistory
                ELSE runHistory' = <<runHistory'[1]>> \o SubSeq(runHistory, 1, HistoryLimit - 1)]_vars

\* a 21st run was started on a full history: the oldest record is gone
C11_Witness ==
    /\ lastCall.op = "startRun"
    /\ Len(runHistory) = HistoryLimit
    /\ runHistory[1].status = "running"
    /\ runHistory[1].id = HistoryLimit + 1
    /\ runHistory[HistoryLimit].id = 2

-----------------------------------------------------------------------------
(* Claims on the schedule, checked under SpecDue *)

\* the rule of the claim, in hours
ClaimedDue(sched, lra, t) ==
    /\ sched # "manual"
    /\ \/ lra = NoTime
       \/ sched = "hourly" /\ t - lra >= 1
       \/ sched = "daily" /\ t - lra >= 24
       \/ sched = "weekly" /\ t - lra >= 7 * 24

\* C12: isDue() is false under the 'manual' schedule whatever lastRunAt is;
\* under hourly / daily / weekly it is true when lastRunAt is unset and
\* otherwise exactly when now - lastRunAt is at least 1 hour / 24 hours /
\* 7 days, an elapsed time equal to the interval counting as due.
C12_IsDue ==
    [][(lastCall'.op = "isDue" /\ UNCHANGED <<schedule, lastRunAt, now>>) =>
           (lastCall'.value = 1 <=> ClaimedDue(schedule, lastRunAt, now))]_vars

\* isDue() answered true exactly 24 hours after the last run of a daily schedule
C12_Witness ==
    /\ lastCall.op = "isDue"
    /\ lastCall.value = 1
    /\ schedule = "daily"
    /\ lastRunAt # NoTime
    /\ now - lastRunAt = 24

-----------------------------------------------------------------------------
(* Claims on context reads, checked under SpecContext *)

\* x does not rank below y: more confidence, or as much and updated no earlier
RanksNotBelow(x, y) ==
    \/ FLess(y.confidence, x.confidence)
    \/ x.confidence = y.confidence /\ x.updatedAt >= y.updatedAt

\* C14: what getEntriesForContext returns is ordered by confidence descending,
\* ties by updatedAt descending; it holds stored entries only, unaltered and
\* each once; of an enabled store it holds the first maxInjectedEntries entries
\* of the ranking when that budget is above 0 and the whole ranking when it is
\* 0 (nothing outside the result ranks above something inside it).
C14_ContextRanking ==
    lastContext.read =>
        LET r == lastContext.entries
        IN /\ \A i, j \in 1..Len(r) : i < j => RanksNotBelow(r[i], r[j])
           /\ \A i \in 1..Len(r) : \E k \in 1..Len(entries) : entries[k] = r[i]
           /\ \A i, j \in 1..Len(r) : i # j => r[i].id # r[j].id
           /\ memEnabled =>
                 /\ Len(r) = IF maxInjectedEntries > 0
                             THEN Min(maxInjectedEntries, Len(entries))
                             ELSE Len(entries)
                 /\ \A k \in 1..Len(entries) :
                       (\A i \in 1..Len(r) : r[i] # entries[k]) =>
                           \A i \in 1..Len(r) : RanksNotBelow(r[i], entries[k])

\* A(0.9, t1), B(0.9, t2 > t1) and C(0.7), stored in this order, are read as
\* B, A, C with the budget 0
C14_Witness ==
    /\ lastContext.read
    /\ memEnabled
    /\ maxInjectedEntries = 0
    /\ entries = <<EntryA, EntryB, EntryC>>
    /\ lastContext.entries = <<EntryB, EntryA, EntryC>>

\* C15 as stated: the ranking is a total order, two entries with equal
\* confidence and equal updatedAt being ordered by id ascending, so that the
\* ranked output does not depend on the order of insertion.
C15_RankingTotalOrder ==
    lastContext.read =>
        \A i, j \in 1..Len(lastContext.entries) :
            LET x == lastContext.entries[i]
                y == lastContext.entries[j]
            IN (i < j /\ x.confidence = y.confidence /\ x.updatedAt = y.updatedAt)
                   => x.id < y.id

-----------------------------------------------------------------------------
(* Claims on reads during a run, checked under SpecRead *)

\* C20 as stated: a context read that interleaves with an in-flight run sees
\* the memory store as it was before the run or as it is after the run, never
\* with the insights of only some of the run's topics.  (Stated of the first
\* run on the empty store, once it is done: the read made while it was in
\* flight returned nothing, or every entry the store holds now.)
C20_ReadsSeeWholeRuns ==
    (/\ Len(runHistory) = 1
     /\ runHistory[1].status = "done"
     /\ lastContext.read
     /\ lastContext.during = {runHistory[1].id})
        => \/ lastContext.entries = <<>>
           \/ {lastContext.entries[i].id : i \in 1..Len(lastContext.entries)}
                 = UsedEntryIds(entries)

-----------------------------------------------------------------------------
(* Claims on the topic loop, checked under SpecJudge *)

\* a step in which the await of task t settles and the run goes on as task t2
StepsTo(t, t2) ==
    /\ t \in tasks
    /\ t \notin tasks'
    /\ t2 \in tasks'
    /\ t2.run = t.run

\* C21: sequential execution.  A run has at most one external call
\* outstanding; its topics are processed in the order of the list of enabled
\* topics, one index after the other; the search of topic i+1 is issued only
\* in the step that ends topic i: after all of its page fetches and its
\* distillation have settled and its consolidation writes are in the store
\* (or after its search came back empty).
C21_Sequential ==
    /\ [](\A t1, t2 \in tasks : t1.run = t2.run => t1 = t2)
    /\ [](\A t \in tasks :
             /\ t.pc \in {"provider", "search", "fetch", "distill"}
             /\ IF t.pc = "provider" THEN t.i = 0 ELSE t.i \in 1..Len(t.topicsToLearn))
    /\ [][\A t \in tasks : \A t2 \in tasks' : StepsTo(t, t2) =>
             \/ /\ t2.i = t.i
                /\ \/ t.pc = "search" /\ t2.pc \in {"fetch", "distill"}
                   \/ t.pc = "fetch" /\ t2.pc \in {"fetch", "distill"}
                /\ entries' = entries
             \/ /\ t2.i = t.i + 1
                /\ t2.pc = "search"
                /\ \/ t.pc = "provider" /\ entries' = entries
                   \/ t.pc = "search" /\ entries' = entries
                   \/ /\ t.pc = "distill"
                      /\ t.u = Len(t.topUrls)
                      /\ Len(entries') = Len(entries) + (t2.totalInsights - t.totalInsights)
                      /\ \A k \in (Len(entries) + 1)..Len(entries') :
                            entries'[k].tags[1] = t.topicsToLearn[t.i].name]_vars

\* the search of the second topic is outstanding and the insight of the first
\* topic is in the store
C21_Witness ==
    \E t \in tasks :
        /\ t.pc = "search"
        /\ t.i = 2
        /\ t.totalInsights = 1
        /\ Len(entries) = 1
        /\ entries[1].tags[1] = t.topicsToLearn[1].name

\* the selection of the claim: the non-empty URLs among the first n of the
\* results the search returned, in their order
ClaimedUrls(results, n) ==
    LET window == SubSeq(results, 1, IF n < Len(results) THEN n ELSE Len(results))
    IN SelectSeq([i \in 1..Len(window) |-> window[i].url], LAMBDA u : u # "")

\* C22: JUDGE selection.  For a topic whose search result is not empty the
\* URLs fetched are exactly the non-empty URLs among the first
\* maxPagesPerTopic results (of the at most 4 the search returns), fetched in
\* the provider's order; an empty URL inside that window is not replaced by a
\* later result; the number of fetches is at most maxPagesPerTopic and at
\* most 4.
C22_JudgeSelection ==
    /\ [][\A t \in tasks : \A o \in collab.search :
             (t.pc = "search" /\ t \notin tasks' /\ o.ok /\ o.results # <<>>) =>
                \E t2 \in tasks' :
                   /\ t2.run = t.run
                   /\ t2.i = t.i
                   /\ t2.topUrls = ClaimedUrls(SubSeq(o.results, 1,
                                                      IF Len(o.results) > 4 THEN 4
                                                      ELSE Len(o.results)),
                                               maxPagesPerTopic)
                   /\ Len(t2.topUrls) <= maxPagesPerTopic
                   /\ Len(t2.topUrls) <= 4
                   /\ IF t2.topUrls = <<>> THEN t2.pc = "distill"
                      ELSE t2.pc = "fetch" /\ t2.u = 1]_vars
    /\ [][\A t \in tasks : (t.pc = "fetch" /\ t \notin tasks') =>
             \E t2 \in tasks' :
                /\ t2.run = t.run
                /\ t2.topUrls = t.topUrls
                /\ IF t.u < Len(t.topUrls)
                   THEN t2.pc = "fetch" /\ t2.u = t.u + 1
                   ELSE t2.pc = "distill"]_vars
    /\ [](\A t \in tasks : t.pc = "fetch" => t.u \in 1..Len(t.topUrls))

\* the provider answered a, '', b, c, d and the budget was 5: the third and
\* last fetch, of c, is outstanding
C22_Witness ==
    \E t \in tasks :
        /\ t.pc = "fetch"
        /\ t.u = 3
        /\ t.topUrls = <<"https://a", "https://b", "https://c">>
        /\ \A o \in collab.search : Len(o.results) = 5

-----------------------------------------------------------------------------
(* Claims on the page filter, checked under SpecPages *)

\* C23 as stated: a fetched page is discarded exactly when its content is
\* shorter than 200 characters; a page of 200 characters or more is kept and
\* passed to the summarizer.
C23_PageFilter ==
    [][\A t \in tasks : \A len \in collab.fetch :
          (t.pc = "fetch" /\ t \notin tasks') =>
             \E t2 \in tasks' :
                /\ t2.run = t.run
                /\ t2.pages = IF len < 200 THEN t.pages
                              ELSE Append(t.pages, [url |-> t.topUrls[t.u], len |-> len])]_vars

-----------------------------------------------------------------------------
(* Claims on termination, checked under SpecLive *)

StatusOf(h, id) == IF HasRun(h, id) THEN RunOf(h, id).status ELSE "none"

\* C25: run termination.  Every awaited call settling and the process staying
\* up, every run whose record was created 'running' reaches 'done' or
\* 'error'; from then on the record is not 'running' again, isRunning is false
\* when the run ends, and a call of runLearningLoop made while no run is in
\* flight, self-learning enabled and configured, starts a new run.
C25_RunsTerminate ==
    /\ \A id \in 1..MaxRuns :
          (StatusOf(runHistory, id) = "running")
              ~> (StatusOf(runHistory, id) \in {"done", "error"})
    /\ [][\A id \in 1..MaxRuns :
             (StatusOf(runHistory, id) = "running" /\ StatusOf(runHistory', id) # "running")
                 => /\ StatusOf(runHistory', id) \in {"done", "error"}
                    /\ ~isRunning(runHistory')
                    /\ tasks' = {}]_vars
    /\ [][\A id \in 1..MaxRuns :
             StatusOf(runHistory, id) \in {"done", "error"}
                 => StatusOf(runHistory', id) = StatusOf(runHistory, id)]_vars
    /\ [][(/\ CallOfRunLearningLoop
           /\ ~isRunning(runHistory)
           /\ enabled
           /\ providerOk /\ searchConfigured /\ activeTopics(topics) # <<>>)
             => /\ lastCall'.result = "pending"
                /\ isRunning(runHistory')
                /\ Len(runHistory') = Len(runHistory) + 1]_vars

\* a first run ended in 'error', a second one was started and ended 'done'
C25_Witness ==
    /\ Len(runHistory) = 2
    /\ runHistory[2].status = "error"
    /\ runHistory[1].status = "done"
    /\ ~isRunning(runHistory)
    /\ tasks = {}

-----------------------------------------------------------------------------
(* Claims on an abandoned run, checked under SpecReload *)

\* the newest record is 'running' and no run task is executing
Abandoned ==
    /\ runHistory # <<>>
    /\ runHistory[1].status = "running"
    /\ tasks = {}

\* C26: abandoned run.  Once the newest ledger record is 'running' with no run
\* task executing (the state was reloaded after a shutdown in mid-run), no
\* call of runLearningLoop or checkAndRunIfDue, and nothing else short of
\* completeRun / failRun, creates a record or changes that one: every such
\* call of runLearningLoop returns 0 and the record stays 'running'.
C26_AbandonedRunBlocks ==
    /\ [][Abandoned => /\ runHistory' = runHistory
                       /\ lastRunAt' = lastRunAt
                       /\ entries' = entries
                       /\ tasks' = {}]_vars
    /\ [][(Abandoned /\ CallOfRunLearningLoop)
             => lastCall' = Result("runLearningLoop", lastCall'.caller, "returned", 0, Null, NoRun)]_vars

\* after a reload in mid-run the schedule's check, due and configured, called
\* runLearningLoop and got 0; the record is still 'running'
C26_Witness ==
    /\ Abandoned
    /\ enabled
    /\ providerOk
    /\ lastCall = Result("runLearningLoop", "schedule", "returned", 0, Null, NoRun)
    /\ now - runHistory[1].startedAt >= DailyH

-----------------------------------------------------------------------------
(* Claims on the ledger and the memory of a failed run, checked under SpecRead *)

\* what a step adds to the memory store
Added == Len(entries') - Len(entries)

\* C27: for a run that ends in 'error' the record's insightsSaved stays 0
\* whatever number of entries the run had added for earlier topics, and those
\* entries stay in the memory store; only for a run that ends 'done' is
\* insightsSaved the number of entries the run added.
C27_FailureKeepsEntries ==
    /\ [][\A t \in tasks :
             /\ \A t2 \in tasks' : StepsTo(t, t2) =>
                   /\ t2.totalInsights = t.totalInsights + Added
                   /\ SubSeq(entries', 1, Len(entries)) = entries
                   /\ RunOf(runHistory', t.run).insightsSaved = 0
             /\ Throws(t) =>
                   /\ entries' = entries
                   /\ RunOf(runHistory', t.run).status = "error"
                   /\ RunOf(runHistory', t.run).insightsSaved = 0
             /\ Returns(t) =>
                   /\ SubSeq(entries', 1, Len(entries)) = entries
                   /\ RunOf(runHistory', t.run).status = "done"
                   /\ RunOf(runHistory', t.run).insightsSaved = t.totalInsights + Added]_vars
    /\ [](\A i \in 1..Len(runHistory) :
             runHistory[i].status = "error" => runHistory[i].insightsSaved = 0)
    /\ []((/\ Len(runHistory) = 1
           /\ runHistory[1].status = "done") => runHistory[1].insightsSaved = Len(entries))
    /\ [](\A t \in tasks : Len(runHistory) = 1 => t.totalInsights = Len(entries))

\* the search of the second topic threw after the first topic had saved an
\* insight: the record says 'error' and 0, the store holds the entry
C27_Witness ==
    /\ Len(runHistory) = 1
    /\ runHistory[1].status = "error"
    /\ runHistory[1].insightsSaved = 0
    /\ lastCall.result = "threw"
    /\ Len(entries) = 1
    /\ entries[1].source = "self-learning"
    /\ entries[1].tags[1] = topics[1].name

-----------------------------------------------------------------------------
(* Claims on the topics of a run, checked under SpecTopics *)

NamesOf(ts) == [i \in 1..Len(ts) |-> ts[i].name]

\* C28: topic snapshot.  The topics a run processes and the topicsProcessed
\* of its record are the topics enabled when the run starts, in list order;
\* addTopic, updateTopic and deleteTopic calls that interleave with the run
\* change neither, and topicsProcessed lists every such topic, also one that
\* was skipped for an empty search or never reached because the run failed.
C28_TopicSnapshot ==
    /\ [][\A t2 \in tasks' : (t2.pc = "provider" /\ t2 \notin tasks) =>
             /\ t2.topicsToLearn = SelectSeq(topics, LAMBDA x : x.enabled)
             /\ RunOf(runHistory', t2.run).topicsProcessed = NamesOf(t2.topicsToLearn)]_vars
    /\ [][\A t \in tasks : \A t2 \in tasks' : StepsTo(t, t2) =>
             /\ t2.topicsToLearn = t.topicsToLearn
             /\ t2.i \in {t.i, t.i + 1}
             /\ \A k \in (Len(entries) + 1)..Len(entries') :
                   entries'[k].tags[1] = t.topicsToLearn[t.i].name]_vars
    /\ [][\A t \in tasks : Returns(t) => t.i = Len(t.topicsToLearn)]_vars
    /\ [](\A t \in tasks :
             RunOf(runHistory, t.run).topicsProcessed = NamesOf(t.topicsToLearn))
    /\ [][\A t \in tasks : (Throws(t) \/ Returns(t)) =>
             RunOf(runHistory', t.run).topicsProcessed = NamesOf(t.topicsToLearn)]_vars
    /\ [][topics' # topics => (tasks' = tasks /\ runHistory' = runHistory)]_vars
    /\ [][\A i \in 1..Len(runHistory) : \A j \in 1..Len(runHistory') :
             runHistory'[j].id = runHistory[i].id
                 => runHistory'[j].topicsProcessed = runHistory[i].topicsProcessed]_vars

\* all topics were deleted while the run was at its first topic: the run is
\* now searching for its second topic and its record still names both
C28_Witness ==
    /\ topics = <<>>
    /\ \E t \in tasks :
          /\ t.pc = "search"
          /\ t.i = 2
          /\ NamesOf(t.topicsToLearn) = <<Str_AI, Str_Go>>
          /\ RunOf(runHistory, t.run).topicsProcessed = <<Str_AI, Str_Go>>

-----------------------------------------------------------------------------
(* Claims on the order of the guards, checked under SpecGuard *)

\* C29: guard order.  The disabled / in-flight guard comes before the
\* pre-flight checks: runLearningLoop called while self-learning is disabled,
\* or while a run is in flight, returns 0, does not throw and changes no
\* state, also when the provider, the web search or the topics are not
\* configured.
C29_GuardBeforePreflight ==
    [][(/\ CallOfRunLearningLoop
        /\ \/ ~enabled
           \/ runHistory # <<>> /\ runHistory[1].status = "running")
          => /\ lastCall' = Result("runLearningLoop", lastCall'.caller, "returned", 0, Null, NoRun)
             /\ UNCHANGED <<now, entries, feedback, enabled, schedule, topics, runHistory,
                            lastRunAt, maxPagesPerTopic, providerOk, searchConfigured,
                            tasks, collab>>]_vars

\* a run is in flight, provider, web search and topics have all been switched
\* off since it started, and a call by hand returned 0
C29_Witness ==
    /\ tasks # {}
    /\ runHistory[1].status = "running"
    /\ ~providerOk
    /\ ~searchConfigured
    /\ \A i \in 1..Len(topics) : ~topics[i].enabled
    /\ lastCall = Result("runLearningLoop", "manual", "returned", 0, Null, NoRun)

-----------------------------------------------------------------------------
(* Claims on the atomicity of CONSOLIDATE, checked under SpecInterleave *)

\* an entry written by CONSOLIDATE: addEntry(insight, [topic.name,
\* 'self-learning'], 'self-learning')
WrittenByRun(e) ==
    /\ e.source = "self-learning"
    /\ Len(e.tags) = 2
    /\ e.tags[2] = Str_SelfLearning

\* C30: CONSOLIDATE atomicity.  For each topic the duplicate decision and the
\* addEntry writes of the surviving insights happen with no suspension point
\* in between, so that no other mutation of the memory store (manual addEntry,
\* the summary of a chat session, updateEntry, deleteEntry, clearAllEntries,
\* boostConfidence, decayConfidence) comes between the decision and the
\* writes: every step that writes an insight of a run writes it behind the
\* store exactly as the step found it, and the insight is no duplicate of any
\* entry of that store.  Outside mutations fall at the awaits, before the
\* decision, and are seen by it.
C30_ConsolidateAtomic ==
    [][\A k \in 1..Len(entries') :
          (WrittenByRun(entries'[k]) /\ entries'[k].id \notin UsedEntryIds(entries)) =>
             /\ k > Len(entries)
             /\ SubSeq(entries', 1, Len(entries)) = entries
             /\ \A j \in 1..Len(entries) :
                   ~IsDuplicateOf(entries'[k].content, ToLowerCase(entries[j].content))]_vars

\* the entry the first topic saved was deleted while the run awaited the
\* second topic, whose consolidation then found no duplicate and saved the
\* same fact again: two insights saved, one entry in the store
C30_Witness ==
    /\ runHistory[1].status = "done"
    /\ runHistory[1].insightsSaved = 2
    /\ Len(entries) = 1
    /\ entries[1].source = "self-learning"
    /\ entries[1].tags[1] = topics[2].name

====
